---------------------------- MODULE Spec2Model ----------------------------
(***************************************************************************)
(* A model of the priyome annotation engine (evals.js, piecetrades eval).  *)
(*                                                                         *)
(* Texts are sequences of symbols.  A symbol is a one-character string,    *)
(* or a word (a SAN move, a label, a reason) none of whose characters is   *)
(* whitespace, a brace, a bracket, a leading digit or a result marker, so  *)
(* that no regular expression of the program can split it.  A token is a   *)
(* text; a token list is a sequence of texts.                              *)
(***************************************************************************)
EXTENDS Integers, Sequences, FiniteSets, TLC

VARIABLES
    tIn,        \* TextModel: the move text handed to tokenizeMovetext
    tToks,      \* TextModel: tokens returned by tokenizeMovetext
    tInj,       \* TextModel: the injectionsByPly argument
    tOut,       \* TextModel: the `out` array of rebuildMovetextWithInsertions
    tpc,        \* TextModel: position of the caller
    scIn,       \* FeatureScorer: the features of the piece being classified
    scOut,      \* FeatureScorer: what scoreOneMinor returned (<<>> before)
    pc,         \* driver: position in pieceTradesEval
    style,      \* driver: how the input game is written
    setup,      \* driver: the input has SetUp and FEN headers
    tmp,        \* driver: the position of the loaded input after hist
    hist,       \* driver: the verbose history of the loaded input, so far
    walk,       \* driver: the replay position
    ply,        \* driver: plies replayed on walk
    tracked,    \* driver: the tracked identities (id -> record)
    injections, \* driver: ply -> what was pushed for that ply
    emittedAssumptions, \* driver: the assumptions comment was pushed
    final,      \* driver: the text returned (<<>> before)
    gIn,        \* text functions: the text handed in
    gExtra,     \* text functions: the extraHeaders argument of ensureHeaders
    gBase,      \* text functions: base of pieceTradesEval (the normalized input)
    gOut,       \* text functions: the text returned (<<>> before)
    gpc,        \* text functions: position of the caller
    runs,       \* two calls of pieceTradesEval: the local state of each
    callArgs,   \* library functions: the arguments of the call
    callResult, \* library functions: what the call returned (<<>> before)
    callpc,     \* library functions: position of the caller
    jobs,       \* cql runner: the job objects runCqlWasm returned, in order
    workers,    \* cql runner: the worker of each job and what it has posted
    busyWorkers, \* cql runner: the module-level _busyWorkers
    now         \* cql runner: the clock read by Date.now()

textVars == <<tIn, tToks, tInj, tOut, tpc>>

scoreVars == <<scIn, scOut>>

driverVars ==
    <<pc, style, setup, tmp, hist, walk, ply, tracked, injections, emittedAssumptions, final>>

pgnVars == <<gIn, gExtra, gBase, gOut, gpc>>

runVars == <<runs>>

callVars == <<callArgs, callResult, callpc>>

cqlVars == <<jobs, workers, busyWorkers, now>>

\* ------------------------------------------------------------------ bounds
\* Longest move text (in symbols) the TextModel specification enumerates.
MaxLen == 4

\* Longest input game (in plies) the driver specification replays.
MaxPly == 12

\* Number of squares on which the identity specification places minor pieces.
MaxMinorSquares == 4

\* Largest attacker and defender count the FeatureScorer specification enumerates.
MaxCount == 3

\* ------------------------------------------------------- character classes
IsSpace(c) == c \in {" ", "\n", "\t"}

IsDigit(c) == c \in {"0", "1", "2", "3", "4", "5", "6", "7", "8", "9"}

\* s has the text w at position i.
HasPrefixAt(s, i, w) ==
    /\ i + Len(w) - 1 <= Len(s)
    /\ \A k \in 1..Len(w) : s[i + k - 1] = w[k]

\* The four termination markers, as texts.
ResultMarkers ==
    << <<"1", "-", "0">>, <<"0", "-", "1">>,
       <<"1", "/", "2", "-", "1", "/", "2">>, <<"*">> >>

\* ------------------------------------------------------------- tokenizer
\* Length of the match of  \{[^}]*\}  at i, 0 when it does not match.
CommentLenAt(s, i) ==
    IF s[i] = "{" /\ \E j \in (i + 1)..Len(s) : s[j] = "}"
    THEN (CHOOSE j \in (i + 1)..Len(s) :
              /\ s[j] = "}"
              /\ \A k \in (i + 1)..(j - 1) : s[k] # "}") - i + 1
    ELSE 0

\* Number of digits starting at i.
RECURSIVE DigitRun(_, _)
DigitRun(s, i) ==
    IF i <= Len(s) /\ IsDigit(s[i]) THEN 1 + DigitRun(s, i + 1) ELSE 0

\* Length of the match of  \d+\.(?:\.\.)?  at i, 0 when it does not match.
MoveNumberLenAt(s, i) ==
    LET d == DigitRun(s, i) IN
    IF d >= 1 /\ i + d <= Len(s) /\ s[i + d] = "."
    THEN IF HasPrefixAt(s, i + d + 1, <<".", ".">>) THEN d + 3 ELSE d + 1
    ELSE 0

\* Length of the match of  1-0|0-1|1\/2-1\/2|\*  at i (first alternative
\* that matches), 0 when none does.
ResultLenAt(s, i) ==
    IF \E k \in 1..Len(ResultMarkers) : HasPrefixAt(s, i, ResultMarkers[k])
    THEN Len(ResultMarkers[CHOOSE k \in 1..Len(ResultMarkers) :
                 /\ HasPrefixAt(s, i, ResultMarkers[k])
                 /\ \A h \in 1..(k - 1) : ~HasPrefixAt(s, i, ResultMarkers[h])])
    ELSE 0

\* Length of the match of  \S+  at i.
RECURSIVE NonSpaceRun(_, _)
NonSpaceRun(s, i) ==
    IF i <= Len(s) /\ ~IsSpace(s[i]) THEN 1 + NonSpaceRun(s, i + 1) ELSE 0

\* The alternation of tokenizeMovetext's regular expression, in priority order.
MatchLenAt(s, i) ==
    IF CommentLenAt(s, i) > 0 THEN CommentLenAt(s, i)
    ELSE IF MoveNumberLenAt(s, i) > 0 THEN MoveNumberLenAt(s, i)
    ELSE IF ResultLenAt(s, i) > 0 THEN ResultLenAt(s, i)
    ELSE NonSpaceRun(s, i)

\* The while loop of tokenizeMovetext: successive leftmost matches.
RECURSIVE TokensFrom(_, _)
TokensFrom(s, i) ==
    IF i > Len(s) THEN <<>>
    ELSE IF IsSpace(s[i]) THEN TokensFrom(s, i + 1)
    ELSE LET n == MatchLenAt(s, i) IN
         <<SubSeq(s, i, i + n - 1)>> \o TokensFrom(s, i + n)

tokenizeMovetext(movesText) == TokensFrom(movesText, 1)

isMoveNumberTok(tok) ==
    /\ Len(tok) >= 2
    /\ MoveNumberLenAt(tok, 1) = Len(tok)

isResultTok(tok) == \E k \in 1..Len(ResultMarkers) : tok = ResultMarkers[k]

isCommentTok(tok) ==
    /\ Len(tok) >= 1
    /\ tok[1] = "{"
    /\ tok[Len(tok)] = "}"

\* A token that rebuildMovetextWithInsertions counts as a played move.
IsMoveLikeTok(tok) == ~isCommentTok(tok) /\ ~isMoveNumberTok(tok) /\ ~isResultTok(tok)

\* ---------------------------------------------------------- reconstructor
\* injectionsByPly[ply] of the source: the list for ply, empty when absent.
InjectAt(injectionsByPly, n) ==
    IF n \in DOMAIN injectionsByPly THEN injectionsByPly[n] ELSE <<>>

\* The for loop of rebuildMovetextWithInsertions from token i on, with the
\* ply counter at ply: the `out` array it builds.
RECURSIVE RebuildFrom(_, _, _, _)
RebuildFrom(tokens, i, n, injectionsByPly) ==
    IF i > Len(tokens) THEN <<>>
    ELSE LET tok == tokens[i] IN
         <<tok>> \o
         ( IF isCommentTok(tok) THEN RebuildFrom(tokens, i + 1, n, injectionsByPly)
           ELSE IF isMoveNumberTok(tok) THEN RebuildFrom(tokens, i + 1, n, injectionsByPly)
           ELSE IF isResultTok(tok) THEN <<>>
           ELSE InjectAt(injectionsByPly, n + 1)
                    \o RebuildFrom(tokens, i + 1, n + 1, injectionsByPly) )

RebuildOut(tokens, injectionsByPly) == RebuildFrom(tokens, 1, 0, injectionsByPly)

\* The value of the ply counter at the end of each iteration of the for loop
\* of rebuildMovetextWithInsertions from token i on, the counter being n
\* before; the iteration that leaves the loop is the last one listed.
RECURSIVE PlyCounterFrom_CountsComments(_, _, _)
PlyCounterFrom_CountsComments(tokens, i, n) ==
    IF i > Len(tokens) THEN <<>>
    ELSE LET tok == tokens[i] IN
         IF isMoveNumberTok(tok) THEN <<n>> \o PlyCounterFrom_CountsComments(tokens, i + 1, n)
         ELSE IF isResultTok(tok) THEN <<n>>
         ELSE <<n + 1>> \o PlyCounterFrom_CountsComments(tokens, i + 1, n + 1)

RECURSIVE PlyCounterFrom(_, _, _)
PlyCounterFrom(tokens, i, n) ==
    IF i > Len(tokens) THEN <<>>
    ELSE LET tok == tokens[i] IN
         IF isCommentTok(tok) THEN <<n>> \o PlyCounterFrom(tokens, i + 1, n)
         ELSE IF isMoveNumberTok(tok) THEN <<n>> \o PlyCounterFrom(tokens, i + 1, n)
         ELSE IF isResultTok(tok) THEN <<n>>
         ELSE <<n + 1>> \o PlyCounterFrom(tokens, i + 1, n + 1)

\* let ply = 0 and the loop over all tokens.
PlyCounter(tokens) == PlyCounterFrom(tokens, 1, 0)

\* Array.prototype.join(" ") on a list of texts.
RECURSIVE JoinFrom(_, _)
JoinFrom(list, i) ==
    IF i > Len(list) THEN <<>>
    ELSE IF i = Len(list) THEN list[i]
    ELSE list[i] \o <<" ">> \o JoinFrom(list, i + 1)

rebuildMovetextWithInsertions(tokens, injectionsByPly) ==
    JoinFrom(RebuildOut(tokens, injectionsByPly), 1)

\* ------------------------------------------------------------ PGN helpers
\* String.prototype.trim / trimEnd.
RECURSIVE TrimEnd(_)
TrimEnd(s) ==
    IF Len(s) > 0 /\ IsSpace(s[Len(s)]) THEN TrimEnd(SubSeq(s, 1, Len(s) - 1)) ELSE s

RECURSIVE TrimStart(_)
TrimStart(s) ==
    IF Len(s) > 0 /\ IsSpace(s[1]) THEN TrimStart(SubSeq(s, 2, Len(s))) ELSE s

Trim(s) == TrimStart(TrimEnd(s))

\* txt.indexOf("\n\n") as a 1-based position, 0 when there is none.
IndexOfBlankLine(s) ==
    IF \E i \in 1..(Len(s) - 1) : s[i] = "\n" /\ s[i + 1] = "\n"
    THEN CHOOSE i \in 1..(Len(s) - 1) :
             /\ s[i] = "\n" /\ s[i + 1] = "\n"
             /\ \A k \in 1..(i - 1) : ~(s[k] = "\n" /\ s[k + 1] = "\n")
    ELSE 0

HasSuffix(s, w) == Len(w) <= Len(s) /\ SubSeq(s, Len(s) - Len(w) + 1, Len(s)) = w

\* The termination marker the text ends with (the longest, which is the one
\* a leftmost match finds), <<>> when it ends with none.
EndMarker(s) ==
    IF \E k \in 1..Len(ResultMarkers) : HasSuffix(s, ResultMarkers[k])
    THEN ResultMarkers[CHOOSE k \in 1..Len(ResultMarkers) :
             /\ HasSuffix(s, ResultMarkers[k])
             /\ \A h \in 1..Len(ResultMarkers) :
                    HasSuffix(s, ResultMarkers[h]) => Len(ResultMarkers[h]) <= Len(ResultMarkers[k])]
    ELSE <<>>

\* The marker matched by  \s+(1-0|0-1|1\/2-1\/2|\*)\s*$ : one that ends the
\* right-trimmed text and has whitespace before it; <<>> when none.
StrippableMarker(s) ==
    LET t == TrimEnd(s) IN
    IF \E k \in 1..Len(ResultMarkers) :
           /\ HasSuffix(t, ResultMarkers[k])
           /\ Len(t) > Len(ResultMarkers[k])
           /\ IsSpace(t[Len(t) - Len(ResultMarkers[k])])
    THEN ResultMarkers[CHOOSE k \in 1..Len(ResultMarkers) :
             /\ HasSuffix(t, ResultMarkers[k])
             /\ Len(t) > Len(ResultMarkers[k])
             /\ IsSpace(t[Len(t) - Len(ResultMarkers[k])])]
    ELSE <<>>

stripEndResultToken(pgn) ==
    LET t == TrimEnd(pgn)
        m == StrippableMarker(pgn)
    IN  IF m = <<>> THEN Trim(pgn)
        ELSE Trim(SubSeq(t, 1, Len(t) - Len(m)))

splitHeadersAndMovetext(pgn) ==
    LET idx == IndexOfBlankLine(pgn) IN
    IF idx = 0 THEN [headers |-> <<>>, moves |-> Trim(pgn)]
    ELSE [headers |-> Trim(SubSeq(pgn, 1, idx - 1)),
          moves   |-> Trim(SubSeq(pgn, idx + 2, Len(pgn)))]

\* Number of whitespace symbols starting at i.
RECURSIVE SpaceRun(_, _)
SpaceRun(s, i) ==
    IF i <= Len(s) /\ IsSpace(s[i]) THEN 1 + SpaceRun(s, i + 1) ELSE 0

\* Number of symbols other than a double quote starting at i.
RECURSIVE NonQuoteRun(_, _)
NonQuoteRun(s, i) ==
    IF i <= Len(s) /\ s[i] # "\"" THEN 1 + NonQuoteRun(s, i + 1) ELSE 0

\* \s*$ under the m flag at position i: the whitespace from i on reaches a
\* line end or the end of the text.
LineEndsAt(s, i) ==
    \/ i + SpaceRun(s, i) > Len(s)
    \/ \E k \in i..(i + SpaceRun(s, i) - 1) : s[k] = "\n"

\* Whether  ^\[Result\s+"([^"]+)"\]\s*$  (m flag) matches with "[" at i.
ResultHeaderAt(s, i) ==
    /\ i = 1 \/ s[i - 1] = "\n"
    /\ HasPrefixAt(s, i, <<"[", "Result">>)
    /\ LET w == SpaceRun(s, i + 2)
           q == i + 2 + w
           v == NonQuoteRun(s, q + 1)
       IN  /\ w >= 1
           /\ q <= Len(s) /\ s[q] = "\""
           /\ v >= 1
           /\ HasPrefixAt(s, q + 1 + v, <<"\"", "]">>)
           /\ LineEndsAt(s, q + 1 + v + 2)

\* m[1] of the first match: the value of the first Result header line.
ResultHeaderValue(s) ==
    LET i == CHOOSE i \in 1..Len(s) :
                 /\ ResultHeaderAt(s, i)
                 /\ \A k \in 1..(i - 1) : ~ResultHeaderAt(s, k)
        q == i + 2 + SpaceRun(s, i + 2)
    IN  SubSeq(s, q + 1, q + NonQuoteRun(s, q + 1))

ensureTrailingResult(pgn) ==
    LET txt == Trim(pgn)
        res == IF \E i \in 1..Len(txt) : ResultHeaderAt(txt, i)
               THEN ResultHeaderValue(txt) ELSE <<"*">>
    IN  IF EndMarker(txt) # <<>> THEN txt \o <<"\n">>
        ELSE Trim(txt \o <<" ">> \o res) \o <<"\n">>

insertDrawTagsNearStart(pgn, tags) ==
    LET insert == <<"{", " ">> \o tags \o <<" ", "}", "\n", "\n">>
        idx == IndexOfBlankLine(pgn)
    IN  IF idx > 0 THEN SubSeq(pgn, 1, idx + 1) \o insert \o SubSeq(pgn, idx + 2, Len(pgn))
        ELSE insert \o pgn

\* Mutant: any bracketed text counts as a highlight directive.
HasCslDirective_AnyBracket(s) ==
    \E i \in 1..Len(s) :
        /\ s[i] = "["
        /\ \E j \in (i + 1)..Len(s) : s[j] = "]"

\* /\[%csl\s+[^\]]*\]/.test(text)
HasCslDirective(s) ==
    \E i \in 1..Len(s) :
        /\ s[i] = "[%csl"
        /\ i < Len(s) /\ IsSpace(s[i + 1])
        /\ \E j \in (i + 2)..Len(s) : s[j] = "]"

\* Mutant: the braces of the body are kept.
escapeCommentBody_KeepBraces(s) ==
    Trim(SelectSeq(s, LAMBDA c : c # "\r"))

\* escapeCommentBody: braces become parentheses, the result is trimmed.
escapeCommentBody(s) ==
    LET t == SelectSeq(s, LAMBDA c : c # "\r") IN
    Trim([ i \in 1..Len(t) |->
             IF t[i] = "{" THEN "(" ELSE IF t[i] = "}" THEN ")" ELSE t[i] ])

\* --------------------------------------------------- header normalisation
\* Symbols of the class [A-Za-z0-9_]: the header keys and the letters and
\* digits the texts of the model are written with.
KeyWords ==
    {"Event", "Site", "Date", "Round", "White", "Black", "Result", "Annotator",
     "SetUp", "FEN", "x", "y", "e4", "e5", "Nf3", "Nc6", "zz"}

IsKeySymbol(c) == c \in KeyWords \/ IsDigit(c)

RECURSIVE KeyRun(_, _)
KeyRun(s, i) ==
    IF i <= Len(s) /\ IsKeySymbol(s[i]) THEN 1 + KeyRun(s, i + 1) ELSE 0

IsLineStart(s, i) == i = 1 \/ s[i - 1] = "\n"

\* Length of the match of  \s+"[^"]*"\]  at position i up to "]", 0 when it
\* does not match.
ValuePartLen(s, i) ==
    LET w == SpaceRun(s, i)
        q == i + w
        v == NonQuoteRun(s, q + 1)
    IN  IF w >= 1 /\ q <= Len(s) /\ s[q] = "\"" /\ HasPrefixAt(s, q + 1 + v, <<"\"", "]">>)
        THEN w + 1 + v + 2 ELSE 0

\* Length of the match of  \s*$  (m flag, greedy) at position i: all the
\* whitespace when it reaches the end of the text, else the whitespace up to
\* its last line feed; -1 when there is no match.
LineTailLen(s, i) ==
    LET w == SpaceRun(s, i) IN
    IF i + w > Len(s) THEN w
    ELSE IF \E k \in 0..(w - 1) : s[i + k] = "\n"
    THEN CHOOSE k \in 0..(w - 1) :
             /\ s[i + k] = "\n"
             /\ \A h \in (k + 1)..(w - 1) : s[i + h] # "\n"
    ELSE -1

\* Length of the match of  ^\[key\s+"[^"]*"\]\s*$  (m flag) with "[" at i,
\* 0 when it does not match there.
HeaderMatchLen(s, i, key) ==
    IF /\ IsLineStart(s, i)
       /\ HasPrefixAt(s, i, <<"[", key>>)
       /\ ValuePartLen(s, i + 2) > 0
       /\ LineTailLen(s, i + 2 + ValuePartLen(s, i + 2)) >= 0
    THEN 2 + ValuePartLen(s, i + 2) + LineTailLen(s, i + 2 + ValuePartLen(s, i + 2))
    ELSE 0

hasHeader(pgn, key) == \E i \in 1..Len(pgn) : HeaderMatchLen(pgn, i, key) > 0

\* /^\s*\[[A-Za-z0-9_]+\s+"[^"]*"\]\s*$/m.test(txt)
hasAnyHeader(txt) ==
    \E i \in 1..Len(txt) :
        /\ IsLineStart(txt, i)
        /\ \E w \in 0..SpaceRun(txt, i) :
              LET b == i + w
                  k == KeyRun(txt, b + 1)
              IN  /\ b <= Len(txt) /\ txt[b] = "["
                  /\ k >= 1
                  /\ ValuePartLen(txt, b + 1 + k) > 0
                  /\ LineTailLen(txt, b + 1 + k + ValuePartLen(txt, b + 1 + k)) >= 0

\* The line  [key "value"]  .
HeaderLine(key, value) == <<"[", key, " ", "\"">> \o value \o <<"\"", "]">>

\* nowStamp(): the date of the run, one word.
nowStamp == "2026.11.03"

\* The block ensureHeaders puts before a text without any header.
DefaultHeaderBlock ==
    HeaderLine("Event", <<"Priyome">>) \o <<"\n">>
    \o HeaderLine("Site", <<"Local">>) \o <<"\n">>
    \o HeaderLine("Date", <<nowStamp>>) \o <<"\n">>
    \o HeaderLine("Round", <<"?">>) \o <<"\n">>
    \o HeaderLine("White", <<"?">>) \o <<"\n">>
    \o HeaderLine("Black", <<"?">>) \o <<"\n">>
    \o HeaderLine("Result", <<"*">>) \o <<"\n", "\n">>

\* A header line put before the first blank line, or before the whole text
\* when it has no blank line.
InsertHeaderLine(txt, line) ==
    LET idx == IndexOfBlankLine(txt) IN
    IF idx > 0 THEN SubSeq(txt, 1, idx - 1) \o <<"\n">> \o line \o SubSeq(txt, idx, Len(txt))
    ELSE line \o <<"\n">> \o txt

\* One round of the loop over extraHeaders: the first line of the key is
\* replaced by the match of the regular expression, else the line is inserted.
SetHeader(txt, key, value) ==
    IF hasHeader(txt, key)
    THEN LET i == CHOOSE i \in 1..Len(txt) :
                      /\ HeaderMatchLen(txt, i, key) > 0
                      /\ \A k \in 1..(i - 1) : HeaderMatchLen(txt, k, key) = 0
         IN  SubSeq(txt, 1, i - 1) \o HeaderLine(key, value)
             \o SubSeq(txt, i + HeaderMatchLen(txt, i, key), Len(txt))
    ELSE InsertHeaderLine(txt, HeaderLine(key, value))

RECURSIVE SetHeaders(_, _)
SetHeaders(txt, extraHeaders) ==
    IF extraHeaders = <<>> THEN txt
    ELSE SetHeaders(SetHeader(txt, extraHeaders[1].key, extraHeaders[1].value),
                    Tail(extraHeaders))

\* txt.replace(/\n{3,}/g, "\n\n"): of a run of line feeds the last two stay.
CollapseBlankLines(s) ==
    LET marked == [ i \in 1..Len(s) |->
                      <<s[i], HasPrefixAt(s, i, <<"\n", "\n", "\n">>)>> ]
        kept == SelectSeq(marked, LAMBDA p : ~p[2])
    IN  [ i \in 1..Len(kept) |-> kept[i][1] ]

ensureHeaders(pgn, extraHeaders) ==
    LET t0 == SelectSeq(pgn, LAMBDA c : c # "\r")
        t1 == IF hasAnyHeader(t0) THEN t0 ELSE DefaultHeaderBlock \o Trim(t0)
        t2 == IF hasHeader(t1, "Result") THEN t1
              ELSE InsertHeaderLine(t1, HeaderLine("Result", <<"*">>))
        t3 == CollapseBlankLines(SetHeaders(t2, extraHeaders))
        t4 == IF IndexOfBlankLine(t3) = 0 THEN t3 \o <<"\n", "\n">> ELSE t3
    IN  TrimEnd(t4) \o <<"\n">>

\* The overrides of pieceTradesEval.
EvalHeaders ==
    << [key |-> "Event", value |-> <<"Evaluated", " ", "(", "piecetrades", ")">>],
       [key |-> "Annotator", value |-> <<"Priyome", " ", "eval", ":", " ", "piecetrades">>] >>

\* ------------------------------------------------------ helpers for claims
\* a is a subsequence of b: a's entries occur in b in a's order.
RECURSIVE IsSubseqFrom(_, _, _, _)
IsSubseqFrom(a, i, b, j) ==
    IF i > Len(a) THEN TRUE
    ELSE IF j > Len(b) THEN FALSE
    ELSE IF a[i] = b[j] THEN IsSubseqFrom(a, i + 1, b, j + 1)
    ELSE IsSubseqFrom(a, i, b, j + 1)

IsSubseq(a, b) == IsSubseqFrom(a, 1, b, 1)

\* The text with every whitespace symbol removed.
StripSpace(s) == SelectSeq(s, LAMBDA c : ~IsSpace(c))

\* ------------------------------------------------------------------ board
\* Squares are numbered a1 = 0, b1 = 1, ... h8 = 63; the source names them
\* by a file letter and a rank digit.
Squares == 0..63

fileIndex(sq) == sq % 8

rankIndex(sq) == sq \div 8

inBounds(f, r) == f >= 0 /\ f < 8 /\ r >= 0 /\ r < 8

sqOf(f, r) == r * 8 + f

\* An empty square of chess.board() (null in the source).
NoPiece == [type |-> "-", color |-> "-"]

Piece(t, c) == [type |-> t, color |-> c]

\* board[row][f] with row = 7 - r.
At(board, f, r) == board[sqOf(f, r)]

Occupied(board, f, r) == At(board, f, r) # NoPiece

Sign(x) == IF x > 0 THEN 1 ELSE IF x < 0 THEN -1 ELSE 0

Abs(x) == IF x < 0 THEN -x ELSE x

isEdgeSquare(sq) ==
    \/ fileIndex(sq) = 0
    \/ fileIndex(sq) = 7
    \/ rankIndex(sq) = 0
    \/ rankIndex(sq) = 7

squareColorName(sq) ==
    IF (fileIndex(sq) + rankIndex(sq)) % 2 = 0 THEN "dark" ELSE "light"

\* The while loop of rayClear, standing on (f, r).
RECURSIVE RayClearFrom(_, _, _, _, _, _, _)
RayClearFrom(f, r, stepF, stepR, tf, tr, board) ==
    IF f = tf /\ r = tr THEN TRUE
    ELSE IF ~inBounds(f, r) THEN FALSE
    ELSE IF Occupied(board, f, r) THEN FALSE
    ELSE RayClearFrom(f + stepF, r + stepR, stepF, stepR, tf, tr, board)

rayClear(ff, fr, tf, tr, board) ==
    LET stepF == Sign(tf - ff)
        stepR == Sign(tr - fr)
    IN  RayClearFrom(ff + stepF, fr + stepR, stepF, stepR, tf, tr, board)

pieceAttacksSquare(fromSq, type, color, targetSq, board) ==
    LET ff == fileIndex(fromSq)
        fr == rankIndex(fromSq)
        tf == fileIndex(targetSq)
        tr == rankIndex(targetSq)
        df == tf - ff
        dr == tr - fr
        isDiag == Abs(df) = Abs(dr) /\ df # 0
        isOrtho == (df = 0 /\ dr # 0) \/ (dr = 0 /\ df # 0)
    IN  IF type = "p"
        THEN dr = (IF color = "w" THEN 1 ELSE -1) /\ (df = 1 \/ df = -1)
        ELSE IF type = "n"
        THEN (Abs(df) = 1 /\ Abs(dr) = 2) \/ (Abs(df) = 2 /\ Abs(dr) = 1)
        ELSE IF type = "k" THEN Abs(df) <= 1 /\ Abs(dr) <= 1
        ELSE IF type = "b" THEN isDiag /\ rayClear(ff, fr, tf, tr, board)
        ELSE IF type = "r" THEN isOrtho /\ rayClear(ff, fr, tf, tr, board)
        ELSE IF type = "q" THEN (isDiag \/ isOrtho) /\ rayClear(ff, fr, tf, tr, board)
        ELSE FALSE

countAttackers(board, targetSq, color) ==
    Cardinality({ sq \in Squares :
        /\ board[sq] # NoPiece
        /\ board[sq].color = color
        /\ pieceAttacksSquare(sq, board[sq].type, board[sq].color, targetSq, board) })

squareOccupiedByOwn(board, sq, color) ==
    board[sq] # NoPiece /\ board[sq].color = color

KnightDeltas ==
    { <<1, 2>>, <<2, 1>>, <<2, -1>>, <<1, -2>>,
      <<-1, -2>>, <<-2, -1>>, <<-2, 1>>, <<-1, 2>> }

knightMobility(board, sq, color) ==
    Cardinality({ d \in KnightDeltas :
        /\ inBounds(fileIndex(sq) + d[1], rankIndex(sq) + d[2])
        /\ ~squareOccupiedByOwn(board, sqOf(fileIndex(sq) + d[1], rankIndex(sq) + d[2]), color) })

\* The while loop of bishopMobility along one direction, standing on (f, r).
RECURSIVE BishopRay(_, _, _, _, _, _)
BishopRay(board, f, r, df, dr, color) ==
    IF ~inBounds(f, r) THEN 0
    ELSE IF Occupied(board, f, r)
    THEN (IF At(board, f, r).color # color THEN 1 ELSE 0)
    ELSE 1 + BishopRay(board, f + df, r + dr, df, dr, color)

bishopMobility(board, sq, color) ==
    LET f == fileIndex(sq)
        r == rankIndex(sq)
    IN  BishopRay(board, f + 1, r + 1, 1, 1, color)
          + BishopRay(board, f + 1, r - 1, 1, -1, color)
          + BishopRay(board, f - 1, r + 1, -1, 1, color)
          + BishopRay(board, f - 1, r - 1, -1, -1, color)

countOwnPawnsOnColor(board, color, colorName) ==
    Cardinality({ sq \in Squares :
        /\ board[sq] # NoPiece
        /\ board[sq].color = color
        /\ board[sq].type = "p"
        /\ squareColorName(sq) = colorName })

\* ----------------------------------------------------------------- scorer
\* The features scoreOneMinor reads off the position for one piece.
Features(board, piece) ==
    [ oppAtt |-> countAttackers(board, piece.square, IF piece.color = "w" THEN "b" ELSE "w"),
      myDef  |-> countAttackers(board, piece.square, piece.color),
      type   |-> piece.type,
      pawns  |-> countOwnPawnsOnColor(board, piece.color, squareColorName(piece.square)),
      edge   |-> isEdgeSquare(piece.square),
      mob    |-> IF piece.type = "n" THEN knightMobility(board, piece.square, piece.color)
                 ELSE bishopMobility(board, piece.square, piece.color) ]

\* Rules (1)..(6) of scoreOneMinor, each on the score the previous one left.
AfterLoose(x, score) == IF x.oppAtt >= x.myDef + 1 THEN score - 4 ELSE score

AfterTension(x, score) == IF x.oppAtt > 0 THEN score - 1 ELSE score + 1

\* Mutant: the stability rule asks for a defender only.
AfterStable_DefendedOnly(x, score) == IF x.myDef >= 1 THEN score + 2 ELSE score

AfterStable(x, score) == IF x.myDef >= 1 /\ x.oppAtt <= 1 THEN score + 2 ELSE score

AfterBadBishop(x, score) ==
    IF x.type = "b" THEN (IF x.pawns >= 5 THEN score - 2 ELSE score + 1) ELSE score

AfterRimKnight(x, score) ==
    IF x.type = "n" THEN (IF x.edge THEN score - 2 ELSE score + 1) ELSE score

\* Mutant: the top mobility band starts above 6 instead of at 6.
AfterMobility_Strict(x, score) ==
    IF x.mob > 6 THEN score + 2 ELSE IF x.mob >= 3 THEN score ELSE score - 1

AfterMobility(x, score) ==
    IF x.mob >= 6 THEN score + 2 ELSE IF x.mob >= 3 THEN score ELSE score - 1

ScoreOf(x) ==
    AfterMobility(x, AfterRimKnight(x, AfterBadBishop(x,
        AfterStable(x, AfterTension(x, AfterLoose(x, 0))))))

ColorTagOf(score) == IF score >= 2 THEN "G" ELSE IF score <= -2 THEN "R" ELSE "Y"

\* Mutant: the stability rule is silent when it leaves the score alone.
ReasonsOf_SilentStability(x) ==
    << IF x.oppAtt >= x.myDef + 1 THEN "LOOSE" ELSE "NotLoose",
       IF x.oppAtt > 0 THEN "TENSION" ELSE "NoPressure" >>
    \o (IF x.myDef >= 1 /\ x.oppAtt <= 1 THEN <<"STABLE">> ELSE <<>>)
    \o (IF x.type = "b" THEN << IF x.pawns >= 5 THEN "BADBISHOP" ELSE "BishopOK" >> ELSE <<>>)
    \o (IF x.type = "n" THEN << IF x.edge THEN "RIMKNIGHT" ELSE "NotRim" >> ELSE <<>>)
    \o << IF x.mob >= 6 THEN "MobilityActive"
          ELSE IF x.mob >= 3 THEN "MobilityAverage" ELSE "MobilityCramped" >>
    \o << IF ColorTagOf(ScoreOf(x)) = "R" THEN "TradeHappy"
          ELSE IF ColorTagOf(ScoreOf(x)) = "G" THEN "TradeAvoid" ELSE "TradeDepends" >>

\* The reason pushed by each rule, one word per reason string, and the
\* trade prediction pushed last.
ReasonsOf(x) ==
    << IF x.oppAtt >= x.myDef + 1 THEN "LOOSE" ELSE "NotLoose",
       IF x.oppAtt > 0 THEN "TENSION" ELSE "NoPressure",
       IF x.myDef >= 1 /\ x.oppAtt <= 1 THEN "STABLE" ELSE "NotStable" >>
    \o (IF x.type = "b" THEN << IF x.pawns >= 5 THEN "BADBISHOP" ELSE "BishopOK" >> ELSE <<>>)
    \o (IF x.type = "n" THEN << IF x.edge THEN "RIMKNIGHT" ELSE "NotRim" >> ELSE <<>>)
    \o << IF x.mob >= 6 THEN "MobilityActive"
          ELSE IF x.mob >= 3 THEN "MobilityAverage" ELSE "MobilityCramped" >>
    \o << IF ColorTagOf(ScoreOf(x)) = "R" THEN "TradeHappy"
          ELSE IF ColorTagOf(ScoreOf(x)) = "G" THEN "TradeAvoid" ELSE "TradeDepends" >>

\* scoreOneMinor on the features: the score, the colour tag and the reasons.
ScoreFeatures(x) ==
    [score |-> ScoreOf(x), colorTag |-> ColorTagOf(ScoreOf(x)), reasons |-> ReasonsOf(x)]

scoreOneMinor(board, piece) == ScoreFeatures(Features(board, piece))

\* ------------------------------------------------- rules-engine collaborator
\* chess.js is not among the sources modelled.  A position is what the engine
\* keeps: the board, the side to move, the en-passant target square (-1 when
\* none) and the castling rights still held.  Moves follow the movement rules
\* of the pieces; whether a move leaves the own king in check is not
\* examined, so the games of the model include every legal game over the
\* moves offered.
FILES == <<"a", "b", "c", "d", "e", "f", "g", "h">>

RANKS == <<"1", "2", "3", "4", "5", "6", "7", "8">>

\* The square named by a file letter and a rank number, as in "e4".
Sq(fileLetter, rank) ==
    sqOf((CHOOSE i \in 1..8 : FILES[i] = fileLetter) - 1, rank - 1)

\* The name of a square as text: file letter, rank digit.
SquareName(sq) == <<FILES[fileIndex(sq) + 1], RANKS[rankIndex(sq) + 1]>>

BackRank == <<"r", "n", "b", "q", "k", "b", "n", "r">>

StartBoard ==
    [ sq \in Squares |->
        IF rankIndex(sq) = 0 THEN Piece(BackRank[fileIndex(sq) + 1], "w")
        ELSE IF rankIndex(sq) = 1 THEN Piece("p", "w")
        ELSE IF rankIndex(sq) = 6 THEN Piece("p", "b")
        ELSE IF rankIndex(sq) = 7 THEN Piece(BackRank[fileIndex(sq) + 1], "b")
        ELSE NoPiece ]

\* new Chess(): the standard starting position.
StartPosition ==
    [board |-> StartBoard, turn |-> "w", ep |-> -1, castle |-> {"K", "Q", "k", "q"}]

\* The position a game starts from when its headers are SetUp "1" and FEN
\* "rnbqkbnr/pppppppp/8/8/3P4/8/PPPNPPPP/RNBQKB1R w KQkq - 0 1": the king's
\* knight stands on d2 and the queen's pawn on d4.
SetUpPosition ==
    [ board |-> [ sq \in Squares |->
                    IF sq = 6 THEN NoPiece
                    ELSE IF sq = 11 THEN Piece("n", "w")
                    ELSE IF sq = 27 THEN Piece("p", "w")
                    ELSE StartBoard[sq] ],
      turn |-> "w", ep |-> -1, castle |-> {"K", "Q", "k", "q"} ]

Other(color) == IF color = "w" THEN "b" ELSE "w"

\* A candidate move of an input game: its SAN text and what it resolves to.
Mv(san, from, to, promo) == [san |-> san, from |-> from, to |-> to, promo |-> promo]

IsCastle(pos, m) ==
    /\ pos.board[m.from].type = "k"
    /\ Abs(fileIndex(m.to) - fileIndex(m.from)) = 2

IsEnPassant(pos, m) ==
    /\ pos.board[m.from].type = "p"
    /\ fileIndex(m.to) # fileIndex(m.from)
    /\ pos.board[m.to] = NoPiece

PawnMoveOk(pos, m) ==
    LET p == pos.board[m.from]
        dir == IF p.color = "w" THEN 1 ELSE -1
        df == fileIndex(m.to) - fileIndex(m.from)
        dr == rankIndex(m.to) - rankIndex(m.from)
    IN  /\ \/ df = 0 /\ dr = dir /\ pos.board[m.to] = NoPiece
           \/ /\ df = 0 /\ dr = 2 * dir
              /\ rankIndex(m.from) = (IF p.color = "w" THEN 1 ELSE 6)
              /\ pos.board[m.from + 8 * dir] = NoPiece
              /\ pos.board[m.to] = NoPiece
           \/ /\ Abs(df) = 1 /\ dr = dir
              /\ (pos.board[m.to] # NoPiece \/ m.to = pos.ep)
        /\ (m.promo # "-") <=> (rankIndex(m.to) = (IF p.color = "w" THEN 7 ELSE 0))
        /\ m.promo \in {"-", "q", "r", "b", "n"}

CastleOk(pos, m) ==
    LET p == pos.board[m.from]
        r == IF p.color = "w" THEN 0 ELSE 7
        kingSide == fileIndex(m.to) = 6
        right == IF p.color = "w" THEN (IF kingSide THEN "K" ELSE "Q")
                 ELSE (IF kingSide THEN "k" ELSE "q")
        between == IF kingSide THEN {5, 6} ELSE {1, 2, 3}
        rookFile == IF kingSide THEN 7 ELSE 0
    IN  /\ m.from = sqOf(4, r)
        /\ m.to \in {sqOf(6, r), sqOf(2, r)}
        /\ right \in pos.castle
        /\ \A f \in between : pos.board[sqOf(f, r)] = NoPiece
        /\ pos.board[sqOf(rookFile, r)] = Piece("r", p.color)
        /\ m.promo = "-"

\* chess.move(san) finds a move to make: m follows the movement rules.
CanPlay(pos, m) ==
    LET p == pos.board[m.from]
        t == pos.board[m.to]
    IN  /\ p # NoPiece
        /\ p.color = pos.turn
        /\ m.from # m.to
        /\ t = NoPiece \/ (t.color # p.color /\ t.type # "k")
        /\ IF p.type = "p" THEN PawnMoveOk(pos, m)
           ELSE IF p.type = "k" /\ IsCastle(pos, m) THEN CastleOk(pos, m)
           ELSE /\ m.promo = "-"
                /\ pieceAttacksSquare(m.from, p.type, p.color, m.to, pos.board)

\* chess.move(san) on a position other than the one the SAN text was written
\* on: the origin squares from which a piece of the named kind (a pawn: on
\* the named file) can make the move.  The move is made when there is
\* exactly one.
SanOrigins(pos, mv) ==
    { f \in Squares :
        /\ pos.board[f] = Piece(mv.piece, mv.color)
        /\ mv.piece = "p" => fileIndex(f) = fileIndex(mv.from)
        /\ CanPlay(pos, Mv(mv.san, f, mv.to, mv.promotion)) }

SanMove(pos, mv) ==
    Mv(mv.san, CHOOSE f \in SanOrigins(pos, mv) : TRUE, mv.to, mv.promotion)

\* The verbose move record of the engine (history({verbose: true})).
VerboseMove(pos, m) ==
    [ san      |-> m.san,
      color    |-> pos.board[m.from].color,
      piece    |-> pos.board[m.from].type,
      from     |-> m.from,
      to       |-> m.to,
      captured |-> IF pos.board[m.to] # NoPiece THEN pos.board[m.to].type
                   ELSE IF IsEnPassant(pos, m) THEN "p" ELSE "-",
      promotion |-> m.promo ]

\* The position after chess.move made m.
MakeMove(pos, m) ==
    LET p == pos.board[m.from]
        r == rankIndex(m.from)
        castling == IsCastle(pos, m)
        kingSide == fileIndex(m.to) = 6
        rookFrom == sqOf(IF kingSide THEN 7 ELSE 0, r)
        rookTo == sqOf(IF kingSide THEN 5 ELSE 3, r)
        epVictim == sqOf(fileIndex(m.to), r)
        lost == (IF p.type = "k" THEN (IF p.color = "w" THEN {"K", "Q"} ELSE {"k", "q"}) ELSE {})
                \cup (IF Sq("a", 1) \in {m.from, m.to} THEN {"Q"} ELSE {})
                \cup (IF Sq("h", 1) \in {m.from, m.to} THEN {"K"} ELSE {})
                \cup (IF Sq("a", 8) \in {m.from, m.to} THEN {"q"} ELSE {})
                \cup (IF Sq("h", 8) \in {m.from, m.to} THEN {"k"} ELSE {})
    IN  [ board |-> [ sq \in Squares |->
                        IF sq = m.from THEN NoPiece
                        ELSE IF sq = m.to
                        THEN (IF m.promo # "-" THEN Piece(m.promo, p.color) ELSE p)
                        ELSE IF IsEnPassant(pos, m) /\ sq = epVictim THEN NoPiece
                        ELSE IF castling /\ sq = rookFrom THEN NoPiece
                        ELSE IF castling /\ sq = rookTo THEN Piece("r", p.color)
                        ELSE pos.board[sq] ],
          turn |-> Other(pos.turn),
          ep |-> IF p.type = "p" /\ Abs(rankIndex(m.to) - r) = 2
                 THEN sqOf(fileIndex(m.from), (r + rankIndex(m.to)) \div 2)
                 ELSE -1,
          castle |-> pos.castle \ lost ]

\* -------------------------------------------------------- identity tracker
ID_ORDER == <<"N1", "N2", "B1", "B2", "n1", "n2", "b1", "b2">>

\* The (colour, type, slot) each label is put for in initTrackedFromPosition.
LabelSlot ==
    [ N1 |-> [color |-> "w", type |-> "n", slot |-> 1],
      N2 |-> [color |-> "w", type |-> "n", slot |-> 2],
      B1 |-> [color |-> "w", type |-> "b", slot |-> 1],
      B2 |-> [color |-> "w", type |-> "b", slot |-> 2],
      n1 |-> [color |-> "b", type |-> "n", slot |-> 1],
      n2 |-> [color |-> "b", type |-> "n", slot |-> 2],
      b1 |-> [color |-> "b", type |-> "b", slot |-> 1],
      b2 |-> [color |-> "b", type |-> "b", slot |-> 2] ]

idsInOrder(trk) == SelectSeq(ID_ORDER, LAMBDA id : id \in DOMAIN trk)

\* Mutant: squares compared by their number (rank first) instead of by name.
SquareSortKey_ByIndex(sq) == sq

\* a.square.localeCompare(b.square): names compare by file letter, then rank.
SquareSortKey(sq) == fileIndex(sq) * 8 + rankIndex(sq)

RECURSIVE SortSquares(_)
SortSquares(S) ==
    IF S = {} THEN <<>>
    ELSE LET m == CHOOSE x \in S : \A y \in S : SquareSortKey(x) <= SquareSortKey(y)
         IN  <<m>> \o SortSquares(S \ {m})

\* listMinors: the knights and bishops of one colour, sorted by square.
listMinors(board, color) ==
    LET sqs == SortSquares({ sq \in Squares :
                   /\ board[sq] # NoPiece
                   /\ board[sq].color = color
                   /\ board[sq].type \in {"n", "b"} })
    IN  [ i \in 1..Len(sqs) |->
            [type |-> board[sqs[i]].type, color |-> color, square |-> sqs[i]] ]

\* wN, wB, bN, bB of initTrackedFromPosition.
MinorGroup(board, color, type) ==
    SelectSeq(listMinors(board, color), LAMBDA p : p.type = type)

initTrackedFromPosition(board) ==
    LET has(id) == LabelSlot[id].slot
                       <= Len(MinorGroup(board, LabelSlot[id].color, LabelSlot[id].type))
        ids == { ID_ORDER[i] : i \in { k \in 1..Len(ID_ORDER) : has(ID_ORDER[k]) } }
    IN  [ id \in ids |->
            LET p == MinorGroup(board, LabelSlot[id].color, LabelSlot[id].type)[LabelSlot[id].slot]
            IN  [id |-> id, color |-> p.color, type |-> p.type,
                 square |-> p.square, lastColorTag |-> "Y"] ]

\* findTrackedBySquare: the first tracked piece on sq, "" for null.
findTrackedBySquare(trk, sq) ==
    LET hits == SelectSeq(idsInOrder(trk), LAMBDA id : trk[id].square = sq)
    IN  IF hits = <<>> THEN "" ELSE hits[1]

Without(trk, id) == [ x \in DOMAIN trk \ {id} |-> trk[x] ]

\* Mutant: the victim is looked up on the origin square of the capture.
TrackedAfterCapture_FromSquare(trk, mv) ==
    IF mv.captured # "-" /\ findTrackedBySquare(trk, mv.from) # ""
    THEN Without(trk, findTrackedBySquare(trk, mv.from))
    ELSE trk

\* 1) Captures: remove the tracked minor sitting on mv.to.
TrackedAfterCapture(trk, mv) ==
    IF mv.captured # "-" /\ findTrackedBySquare(trk, mv.to) # ""
    THEN Without(trk, findTrackedBySquare(trk, mv.to))
    ELSE trk

\* The tracked piece the move's mover is, "" for null.
FindMover(trk, mv) ==
    LET hits == SelectSeq(idsInOrder(trk), LAMBDA id :
                    /\ trk[id].square = mv.from
                    /\ trk[id].type = mv.piece
                    /\ trk[id].color = mv.color)
    IN  IF hits = <<>> THEN "" ELSE hits[1]

\* Mutant: when the mover is not found on the origin square, an identity of
\* its colour and type is taken for it.
TrackedAfterMove_Adopt(trk, mv) ==
    LET same == SelectSeq(idsInOrder(trk), LAMBDA id :
                    trk[id].type = mv.piece /\ trk[id].color = mv.color)
    IN  IF mv.piece \in {"n", "b"} /\ FindMover(trk, mv) # ""
        THEN [trk EXCEPT ![FindMover(trk, mv)].square = mv.to]
        ELSE IF mv.piece \in {"n", "b"} /\ same # <<>>
        THEN [trk EXCEPT ![same[1]].square = mv.to]
        ELSE trk

\* 2) Moves: a tracked knight or bishop that moved gets its new square.
TrackedAfterMove(trk, mv) ==
    IF mv.piece \in {"n", "b"} /\ FindMover(trk, mv) # ""
    THEN [trk EXCEPT ![FindMover(trk, mv)].square = mv.to]
    ELSE trk

\* The identity update of one replayed move.
TrackedAfterReplay(trk, mv) == TrackedAfterMove(TrackedAfterCapture(trk, mv), mv)

\* ------------------------------------------------------ annotation driver
START_PLY == 10

\* Mutant: emission starts one ply early.
BeforeStartPly_Early(p) == p < START_PLY - 1

\* if (ply < START_PLY) continue;
BeforeStartPly(p) == p < START_PLY

\* scoreOneMinor for every live tracked piece on the replay board.
EvalAll(trk, board) ==
    [ id \in DOMAIN trk |->
        scoreOneMinor(board, [type |-> trk[id].type, color |-> trk[id].color,
                              square |-> trk[id].square]) ]

\* Mutant: every evaluated piece counts as changed.
TagChanged_Always(prev, next) == TRUE

\* if (prev !== next)
TagChanged(prev, next) == prev # next

\* The ids pushed on changedIds, in ID order.
ChangedIds(trk, evals) ==
    SelectSeq(idsInOrder(trk),
              LAMBDA id : TagChanged(trk[id].lastColorTag, evals[id].colorTag))

\* Mutant: the evaluation loop leaves the stored tags alone.
TrackedAfterEval_KeepStored(trk, evals) == trk

\* The stored tags after the evaluation loop.
TrackedAfterEval(trk, evals) ==
    [ id \in DOMAIN trk |->
        IF TagChanged(trk[id].lastColorTag, evals[id].colorTag)
        THEN [trk[id] EXCEPT !.lastColorTag = evals[id].colorTag]
        ELSE trk[id] ]

\* Mutant: only the white identities are listed.
makeCslFromTracked_WhiteOnly(trk) ==
    LET ids == SelectSeq(idsInOrder(trk), LAMBDA id : trk[id].color = "w")
    IN  [ i \in 1..Len(ids) |->
            [tag |-> trk[ids[i]].lastColorTag, square |-> trk[ids[i]].square] ]

\* makeCslFromTracked: stored tag and current square, in ID order.
makeCslFromTracked(trk) ==
    LET ids == idsInOrder(trk)
    IN  [ i \in 1..Len(ids) |->
            [tag |-> trk[ids[i]].lastColorTag, square |-> trk[ids[i]].square] ]

\* The strings pushed on injections[ply], kept by what they are built from.
CslEntry(parts) == [kind |-> "csl", parts |-> parts]

AssumptionsEntry(p, san) == [kind |-> "assumptions", ply |-> p, san |-> san]

RationaleEntry(id, prev, piece, eval) ==
    [ kind |-> "rationale", id |-> id, from |-> prev, to |-> eval.colorTag,
      score |-> eval.score, reasons |-> eval.reasons,
      color |-> piece.color, type |-> piece.type, square |-> piece.square ]

\* Mutant: the assumptions are pushed at every ply with a change.
PlyInjections_EveryChange(trk, evals, p, san, emitted) ==
    LET changed == ChangedIds(trk, evals)
        after == TrackedAfterEval(trk, evals)
    IN  << CslEntry(makeCslFromTracked(after)) >>
        \o (IF changed # <<>> THEN << AssumptionsEntry(p, san) >> ELSE <<>>)
        \o [ i \in 1..Len(changed) |->
               RationaleEntry(changed[i], trk[changed[i]].lastColorTag,
                              after[changed[i]], evals[changed[i]]) ]

\* What one processed ply (ply >= START_PLY) pushes on injections[ply]:
\* the highlight, the assumptions (once per run), one rationale per change.
PlyInjections(trk, evals, p, san, emitted) ==
    LET changed == ChangedIds(trk, evals)
        after == TrackedAfterEval(trk, evals)
    IN  << CslEntry(makeCslFromTracked(after)) >>
        \o (IF changed # <<>> /\ ~emitted THEN << AssumptionsEntry(p, san) >> ELSE <<>>)
        \o [ i \in 1..Len(changed) |->
               RationaleEntry(changed[i], trk[changed[i]].lastColorTag,
                              after[changed[i]], evals[changed[i]]) ]

\* ------------------------------------------------------------- rendering
DigitChars == <<"0", "1", "2", "3", "4", "5", "6", "7", "8", "9">>

\* String(n) for n >= 0.
RECURSIVE Digits(_)
Digits(n) ==
    IF n < 10 THEN <<DigitChars[n + 1]>>
    ELSE Digits(n \div 10) \o <<DigitChars[(n % 10) + 1]>>

tagToName(tag) ==
    IF tag = "G" THEN "GREEN"
    ELSE IF tag = "Y" THEN "YELLOW"
    ELSE IF tag = "R" THEN "RED"
    ELSE IF tag = "-" THEN "UNKNOWN"
    ELSE tag

\* cslItems.join(",")
RECURSIVE JoinParts(_, _)
JoinParts(parts, i) ==
    IF i > Len(parts) THEN <<>>
    ELSE <<parts[i].tag>> \o SquareName(parts[i].square)
         \o (IF i < Len(parts) THEN <<",">> ELSE <<>>)
         \o JoinParts(parts, i + 1)

\* `{ ${cslTag} }`
RenderCsl(e) ==
    <<"{", " ", "[%csl", " ">> \o JoinParts(e.parts, 1) \o <<"]", " ", "}">>

\* The assumptions comment; the fixed bullet lines are cut to the first and
\* the bullet character is written "-".
RenderAssumptions(e) ==
    <<"{", " ">>
    \o escapeCommentBody(
         <<"piecetrades:", " ", "first", " ", "rationale", " ", "emission", "\n",
           "position", " ", "after", " ", IF e.ply % 2 = 1 THEN "White" ELSE "Black",
           " ", "played", " ", e.san, " ", "(ply", " ">>
         \o Digits(e.ply)
         \o <<")", "\n", "\n", "Assumptions", " ", "(stated", " ", "once):", "\n",
              "-", " ", "No", " ", "engine", " ", "calculation.">>)
    \o <<" ", "}">>

RECURSIVE ReasonLines(_, _)
ReasonLines(reasons, i) ==
    IF i > Len(reasons) THEN <<>>
    ELSE <<"\n", "-", " ", reasons[i]>> \o ReasonLines(reasons, i + 1)

\* The rationale comment of one changed identity.
RenderRationale(e) ==
    <<"{", " ">>
    \o escapeCommentBody(
         <<e.id, " ", "(", IF e.color = "w" THEN "White" ELSE "Black", " ",
           IF e.type = "n" THEN "Knight" ELSE "Bishop", " ", "@", " ">>
         \o SquareName(e.square)
         \o <<")", " ", "went", " ", "from", " ", tagToName(e.from), " ", "to", " ",
              tagToName(e.to), " ", "(score=", ToString(e.score), ")">>
         \o ReasonLines(e.reasons, 1))
    \o <<" ", "}">>

RenderEntry(e) ==
    IF e.kind = "csl" THEN RenderCsl(e)
    ELSE IF e.kind = "assumptions" THEN RenderAssumptions(e)
    ELSE RenderRationale(e)

\* The injections object as rebuildMovetextWithInsertions receives it.
RenderInjections(inj) ==
    [ p \in DOMAIN inj |->
        [ i \in 1..Len(inj[p]) |-> RenderEntry(inj[p][i]) ] ]

\* ------------------------------------------------ loading and the fallback
\* clip(s, max): the text when it has at most max characters, else its first
\* max characters and a note of how many were left out ("..." stands for the
\* ellipsis character).  A symbol counts for the characters it is written with.
RECURSIVE CharLen(_)
CharLen(s) ==
    IF s = <<>> THEN 0
    ELSE IF Len(s) = 1 THEN Len(s[1])
    ELSE CharLen(SubSeq(s, 1, Len(s) \div 2)) + CharLen(SubSeq(s, Len(s) \div 2 + 1, Len(s)))

\* t.slice(0, max): the symbols that fit whole, and the part that fits of
\* the symbol after them.
SliceChars(s, max) ==
    LET k == CHOOSE k \in 0..Len(s) :
                 /\ CharLen(SubSeq(s, 1, k)) <= max
                 /\ k < Len(s) => CharLen(SubSeq(s, 1, k + 1)) > max
        left == max - CharLen(SubSeq(s, 1, k))
    IN  SubSeq(s, 1, k)
        \o (IF k < Len(s) /\ left > 0 THEN <<SubSeq(s[k + 1], 1, left)>> ELSE <<>>)

clip(s, max) ==
    IF CharLen(s) <= max THEN s
    ELSE SliceChars(s, max) \o <<"\n", "...", " ", "(">> \o Digits(CharLen(s) - max)
         \o <<" ", "more", " ", "chars", ")">>

\* The rules engine reading a text (chess.loadPgn).  The header lines end at
\* the first blank line; a text that does not begin with a header is all
\* move text.  -1 stands for a text the engine cannot read.
EngineBodyStart(pgn) ==
    LET idx == IndexOfBlankLine(pgn) IN
    IF pgn = <<>> \/ pgn[1] # "[" THEN 1
    ELSE IF \E i \in 2..(IF idx > 0 THEN idx ELSE Len(pgn)) :
                pgn[i - 1] = "\n" /\ pgn[i] # "["
    THEN -1
    ELSE IF idx > 0 THEN idx + 2 ELSE Len(pgn) + 1

\* The SAN words the engine knows in the games of this model.
SanBook ==
    { Mv("e4", Sq("e", 2), Sq("e", 4), "-"), Mv("e5", Sq("e", 7), Sq("e", 5), "-"),
      Mv("Nf3", Sq("g", 1), Sq("f", 3), "-"), Mv("Nc6", Sq("b", 8), Sq("c", 6), "-") }

\* The words of the move text that are neither comments, move numbers nor
\* termination markers.
EngineWords(pgn) ==
    LET start == EngineBodyStart(Trim(pgn))
        body == SubSeq(Trim(pgn), start, Len(Trim(pgn)))
    IN  SelectSeq(tokenizeMovetext(body), IsMoveLikeTok)

\* The words played from pos one after the other: whether each was a move
\* of its position, and the moves made.
RECURSIVE PlayWords(_, _)
PlayWords(pos, words) ==
    IF words = <<>> THEN [ok |-> TRUE, moves |-> <<>>]
    ELSE IF \E m \in SanBook : <<m.san>> = words[1] /\ CanPlay(pos, m)
    THEN LET m == CHOOSE m \in SanBook : <<m.san>> = words[1] /\ CanPlay(pos, m)
             rest == PlayWords(MakeMove(pos, m), Tail(words))
         IN  [ok |-> rest.ok, moves |-> <<m>> \o rest.moves]
    ELSE [ok |-> FALSE, moves |-> <<>>]

\* chess.loadPgn(pgn) followed by chess.history(): whether the text loaded,
\* and the moves the engine holds afterwards (none after a failed load).
loadPgn(pgn) ==
    IF EngineBodyStart(Trim(pgn)) = -1 THEN [ok |-> FALSE, history |-> <<>>]
    ELSE LET played == PlayWords(StartPosition, EngineWords(pgn)) IN
         IF played.ok THEN [ok |-> TRUE, history |-> played.moves]
         ELSE [ok |-> FALSE, history |-> <<>>]

tryLoadPgn(pgn) ==
    LET moves == splitHeadersAndMovetext(stripEndResultToken(pgn)).moves
        hasMovetext == \E i \in 1..Len(moves) : ~IsSpace(moves[i])
        histLen == Len(loadPgn(pgn).history)
    IN  IF ~loadPgn(pgn).ok THEN FALSE
        ELSE IF ~hasMovetext THEN TRUE
        ELSE histLen > 0

\* The number of characters of the input the diagnostic comment quotes.
FallbackClip == 800

\* The header block, the diagnostic comment and the placeholder line of the
\* fallback record ("-" stands for the bullet of the Event value).
FallbackHeaders ==
    HeaderLine("Event", <<"Evaluated", " ", "(", "piecetrades", ")", " ", "-", " ",
                          "PARSE", " ", "FAILURE">>) \o <<"\n">>
    \o HeaderLine("Site", <<"?">>) \o <<"\n">>
    \o HeaderLine("Date", <<nowStamp>>) \o <<"\n">>
    \o HeaderLine("Round", <<"-">>) \o <<"\n">>
    \o HeaderLine("White", <<"?">>) \o <<"\n">>
    \o HeaderLine("Black", <<"?">>) \o <<"\n">>
    \o HeaderLine("Result", <<"*">>) \o <<"\n", "\n">>

FallbackComment(base) ==
    <<"{", " ", "piecetrades", ":", " ", "could", " ", "not", " ", "parse", " ",
      "input", " ", "PGN", ".", " ", "First", " ", "800", " ", "chars", ":", "\n">>
    \o escapeCommentBody(clip(base, FallbackClip)) \o <<"\n", "}", "\n">>

FallbackMoves ==
    <<"1", ".", " ", "e4", " ", "e5", " ", "{", " ", "[%csl", " ", "Y", "e", "4", "]",
      " ", "}", " ", "*", "\n">>

FallbackText(base) ==
    ensureTrailingResult(FallbackHeaders \o FallbackComment(base) \o FallbackMoves)

\* The tags of the minimal highlight directive.
MinimalTags == <<"[%csl", " ", "Y", "e", "4", "]">>

\* The text pieceTradesEval returns for a loaded input, from base and the
\* strings to inject.
AnnotatedText(base, injectionsByPly) ==
    LET noRes == stripEndResultToken(base)
        hm == splitHeadersAndMovetext(noRes)
        tokens == tokenizeMovetext(hm.moves)
        finalMoves == rebuildMovetextWithInsertions(tokens, injectionsByPly)
        rebuilt == hm.headers \o <<"\n", "\n">> \o finalMoves
        tagged == IF ~HasCslDirective(rebuilt)
                  THEN insertDrawTagsNearStart(rebuilt, MinimalTags)
                  ELSE rebuilt
    IN  ensureTrailingResult(tagged)

\* -------------------------------------------------------------- input games
\* The text of an input game is written from its moves in one of four
\* styles: "1. e4 e5 2. Nf3 *" with the header result *; "1.e4 e5 {c} 2.Nf3"
\* with the header result 1-0 and no termination marker; the first style
\* with the rest-of-line comment "; adjourned *" after the first move; and
\* the first style with the numeric annotation glyph "$1" after the first
\* move.
InputStyles ==
    { [dense |-> FALSE, result |-> <<"*">>, trailing |-> TRUE, lineComment |-> FALSE, nag |-> FALSE],
      [dense |-> TRUE, result |-> <<"1", "-", "0">>, trailing |-> FALSE, lineComment |-> FALSE, nag |-> FALSE],
      [dense |-> FALSE, result |-> <<"*">>, trailing |-> TRUE, lineComment |-> TRUE, nag |-> FALSE],
      [dense |-> FALSE, result |-> <<"*">>, trailing |-> TRUE, lineComment |-> FALSE, nag |-> TRUE] }

RECURSIVE MovetextFrom(_, _, _)
MovetextFrom(game, k, st) ==
    IF k > Len(game) THEN <<>>
    ELSE (IF k % 2 = 1
          THEN Digits((k + 1) \div 2) \o <<".">> \o (IF st.dense THEN <<>> ELSE <<" ">>)
          ELSE <<>>)
         \o <<game[k].san>>
         \o (IF st.dense /\ k % 2 = 0 THEN <<" ", "{", "c", "}">> ELSE <<>>)
         \o (IF st.nag /\ k = 1 THEN <<" ", "$1">> ELSE <<>>)
         \o (IF st.lineComment /\ k = 1
             THEN <<" ", ";", " ", "adjourned", " ", "*", "\n">> ELSE <<>>)
         \o (IF k < Len(game) /\ ~(st.lineComment /\ k = 1) THEN <<" ">> ELSE <<>>)
         \o MovetextFrom(game, k + 1, st)

\* The headers of the input; su: the game starts from SetUpPosition and the
\* text says so with the SetUp and FEN headers.
HeaderText(st, su) ==
    <<"[", "Event", " ", "\"", "Evaluated", "\"", "]", "\n",
      "[", "Result", " ", "\"">> \o st.result \o <<"\"", "]", "\n">>
    \o (IF su
        THEN <<"[", "SetUp", " ", "\"", "1", "\"", "]", "\n",
               "[", "FEN", " ", "\"", "rnbqkbnr/pppppppp/8/8/3P4/8/PPPNPPPP/RNBQKB1R",
               " ", "w", " ", "KQkq", " ", "-", " ", "0", " ", "1", "\"", "]", "\n">>
        ELSE <<>>)
    \o <<"[", "Annotator", " ", "\"", "Priyome", "\"", "]">>

\* base: the input after ensureHeaders.
BaseText(game, st, su) ==
    HeaderText(st, su) \o <<"\n", "\n">> \o MovetextFrom(game, 1, st)
    \o (IF st.trailing THEN <<" ">> \o st.result ELSE <<>>) \o <<"\n">>

\* tokens of pieceTradesEval: strip the result, split, tokenize.
InputTokens(game, st, su) ==
    tokenizeMovetext(splitHeadersAndMovetext(stripEndResultToken(BaseText(game, st, su))).moves)

\* The text pieceTradesEval returns.
FinalText(game, st, su, inj) ==
    LET noRes == stripEndResultToken(BaseText(game, st, su))
        hm == splitHeadersAndMovetext(noRes)
        tokens == tokenizeMovetext(hm.moves)
        finalMoves == rebuildMovetextWithInsertions(tokens, RenderInjections(inj))
        rebuilt == hm.headers \o <<"\n", "\n">> \o finalMoves
        tagged == IF ~HasCslDirective(rebuilt)
                  THEN insertDrawTagsNearStart(rebuilt, <<"[%csl", " ", "Y", "e", "4", "]">>)
                  ELSE rebuilt
    IN  ensureTrailingResult(tagged)

\* ------------------------------------------- TextModel specification
\* Characters the enumerated move texts are made of.
TextAlphabet == {" ", "1", ".", "e", "{", "}", "*", "-", "0"}

TextsUpTo(n) == UNION {[1..k -> TextAlphabet] : k \in 0..n}

\* Injection maps offered to the reconstructor: none, one comment after the
\* first move, two comments after the second move.
InjectionChoices ==
    { <<>>,
      (1 :> << <<"{", "a", "}">> >>),
      (2 :> << <<"{", "a", "}">>, <<"{", "b", "}">> >>) }

\* The variables of a component that is not running.
TextIdle ==
    /\ tIn = <<>>
    /\ tToks = <<>>
    /\ tInj = <<>>
    /\ tOut = <<>>
    /\ tpc = "off"

NoFeatures ==
    [oppAtt |-> 0, myDef |-> 0, type |-> "-", pawns |-> 0, edge |-> FALSE, mob |-> 0]

ScoreIdle ==
    /\ scIn = NoFeatures
    /\ scOut = <<>>

DriverIdle ==
    /\ pc = "off"
    /\ style = [dense |-> FALSE, result |-> <<"*">>, trailing |-> TRUE, lineComment |-> FALSE, nag |-> FALSE]
    /\ setup = FALSE
    /\ tmp = StartPosition
    /\ hist = <<>>
    /\ walk = StartPosition
    /\ ply = 0
    /\ tracked = <<>>
    /\ injections = <<>>
    /\ emittedAssumptions = FALSE
    /\ final = <<>>

PgnIdle ==
    /\ gIn = <<>>
    /\ gExtra = <<>>
    /\ gBase = <<>>
    /\ gOut = <<>>
    /\ gpc = "off"

RunsIdle == runs = <<>>

CallIdle == callArgs = <<>> /\ callResult = <<>> /\ callpc = "off"

CqlIdle == jobs = <<>> /\ workers = <<>> /\ busyWorkers = 0 /\ now = 0

InitText ==
    /\ tIn \in TextsUpTo(MaxLen)
    /\ tToks = <<>>
    /\ tInj = <<>>
    /\ tOut = <<>>
    /\ tpc = "input"
    /\ ScoreIdle
    /\ DriverIdle
    /\ PgnIdle
    /\ RunsIdle
    /\ CallIdle
    /\ CqlIdle

Tokenize ==
    /\ tpc = "input"
    /\ tToks' = tokenizeMovetext(tIn)
    /\ tpc' = "tokenized"
    /\ UNCHANGED <<tIn, tInj, tOut>>
    /\ UNCHANGED <<scoreVars, driverVars, pgnVars, runVars, callVars, cqlVars>>

Rebuild ==
    /\ tpc = "tokenized"
    /\ \E inj \in InjectionChoices :
          /\ tInj' = inj
          /\ tOut' = RebuildOut(tToks, inj)
    /\ tpc' = "rebuilt"
    /\ UNCHANGED <<tIn, tToks>>
    /\ UNCHANGED <<scoreVars, driverVars, pgnVars, runVars, callVars, cqlVars>>

NextText == Tokenize \/ Rebuild

vars == <<textVars, scoreVars, driverVars, pgnVars, runVars, callVars, cqlVars>>

SpecText == InitText /\ [][NextText]_vars

\* ---------------------------------------- FeatureScorer specification
\* Own pawns on one square colour, and squares a knight or bishop can reach.
PawnCounts == 0..8

MobilityValues == 0..13

FeatureInputs ==
    [ oppAtt : 0..MaxCount, myDef : 0..MaxCount, type : {"n", "b"},
      pawns : PawnCounts, edge : BOOLEAN, mob : MobilityValues ]

InitScore ==
    /\ scIn \in FeatureInputs
    /\ scOut = <<>>
    /\ TextIdle
    /\ DriverIdle
    /\ PgnIdle
    /\ RunsIdle
    /\ CallIdle
    /\ CqlIdle

Classify ==
    /\ scOut = <<>>
    /\ scOut' = <<ScoreFeatures(scIn)>>
    /\ UNCHANGED scIn
    /\ UNCHANGED <<textVars, driverVars, pgnVars, runVars, callVars, cqlVars>>

NextScore == Classify

SpecScore == InitScore /\ [][NextScore]_vars

\* ------------------------------------------- identity specification
\* Squares on which the starting boards of this specification carry a white
\* knight, a white bishop, a black knight or nothing: a2, b1, c3, g1, h8, a1.
MinorSquares == <<8, 1, 18, 6, 63, 0>>

MinorChoices == {NoPiece, Piece("n", "w"), Piece("b", "w"), Piece("n", "b")}

StartingBoards ==
    { [ sq \in Squares |->
          IF \E i \in 1..MaxMinorSquares : MinorSquares[i] = sq
          THEN f[CHOOSE i \in 1..MaxMinorSquares : MinorSquares[i] = sq]
          ELSE NoPiece ] : f \in [1..MaxMinorSquares -> MinorChoices] }

InitIds ==
    /\ pc = "board"
    /\ walk \in { [board |-> b, turn |-> "w", ep |-> -1, castle |-> {}] : b \in StartingBoards }
    /\ style = [dense |-> FALSE, result |-> <<"*">>, trailing |-> TRUE, lineComment |-> FALSE, nag |-> FALSE]
    /\ setup = FALSE
    /\ tmp = StartPosition
    /\ hist = <<>>
    /\ ply = 0
    /\ tracked = <<>>
    /\ injections = <<>>
    /\ emittedAssumptions = FALSE
    /\ final = <<>>
    /\ TextIdle
    /\ ScoreIdle
    /\ PgnIdle
    /\ RunsIdle
    /\ CallIdle
    /\ CqlIdle

AssignIds ==
    /\ pc = "board"
    /\ tracked' = initTrackedFromPosition(walk.board)
    /\ pc' = "labelled"
    /\ UNCHANGED <<style, setup, tmp, hist, walk, ply, injections, emittedAssumptions, final>>
    /\ UNCHANGED <<textVars, scoreVars, pgnVars, runVars, callVars, cqlVars>>

NextIds == AssignIds

SpecIds == InitIds /\ [][NextIds]_vars

\* ------------------------------------------------- driver specification
\* The input games are the games of a small book and their prefixes,
\* continued by pawn moves past the end of the book.  The book holds quiet
\* development, castling on either side, an en-passant capture, promotions
\* to a knight and to a bishop, and captures of and by tracked pieces before
\* and after the start ply.
BookMove(san, ff, fr, tf, tr, promo) == Mv(san, Sq(ff, fr), Sq(tf, tr), promo)

ItalianQuiet ==
    << BookMove("e4", "e", 2, "e", 4, "-"), BookMove("e5", "e", 7, "e", 5, "-"),
       BookMove("Nf3", "g", 1, "f", 3, "-"), BookMove("Nc6", "b", 8, "c", 6, "-"),
       BookMove("Bc4", "f", 1, "c", 4, "-"), BookMove("Bc5", "f", 8, "c", 5, "-"),
       BookMove("O-O", "e", 1, "g", 1, "-"), BookMove("Nf6", "g", 8, "f", 6, "-"),
       BookMove("Nc3", "b", 1, "c", 3, "-"), BookMove("d6", "d", 7, "d", 6, "-"),
       BookMove("d3", "d", 2, "d", 3, "-"), BookMove("Bg4", "c", 8, "g", 4, "-") >>

ItalianSacrifice ==
    << BookMove("e4", "e", 2, "e", 4, "-"), BookMove("e5", "e", 7, "e", 5, "-"),
       BookMove("Nf3", "g", 1, "f", 3, "-"), BookMove("Nc6", "b", 8, "c", 6, "-"),
       BookMove("Bc4", "f", 1, "c", 4, "-"), BookMove("Bc5", "f", 8, "c", 5, "-"),
       BookMove("O-O", "e", 1, "g", 1, "-"), BookMove("Nf6", "g", 8, "f", 6, "-"),
       BookMove("Nc3", "b", 1, "c", 3, "-"), BookMove("Bxf2+", "c", 5, "f", 2, "-"),
       BookMove("Rxf2", "f", 1, "f", 2, "-"), BookMove("Ng4", "f", 6, "g", 4, "-") >>

SpanishExchange ==
    << BookMove("e4", "e", 2, "e", 4, "-"), BookMove("e5", "e", 7, "e", 5, "-"),
       BookMove("Nf3", "g", 1, "f", 3, "-"), BookMove("Nc6", "b", 8, "c", 6, "-"),
       BookMove("Bb5", "f", 1, "b", 5, "-"), BookMove("a6", "a", 7, "a", 6, "-"),
       BookMove("Bxc6", "b", 5, "c", 6, "-"), BookMove("dxc6", "d", 7, "c", 6, "-"),
       BookMove("Nxe5", "f", 3, "e", 5, "-"), BookMove("Nf6", "g", 8, "f", 6, "-"),
       BookMove("Nc3", "b", 1, "c", 3, "-"), BookMove("Bg4", "c", 8, "g", 4, "-") >>

ScotchTrade ==
    << BookMove("e4", "e", 2, "e", 4, "-"), BookMove("e5", "e", 7, "e", 5, "-"),
       BookMove("Nf3", "g", 1, "f", 3, "-"), BookMove("Nc6", "b", 8, "c", 6, "-"),
       BookMove("Nc3", "b", 1, "c", 3, "-"), BookMove("Nf6", "g", 8, "f", 6, "-"),
       BookMove("d4", "d", 2, "d", 4, "-"), BookMove("exd4", "e", 5, "d", 4, "-"),
       BookMove("Nxd4", "f", 3, "d", 4, "-"), BookMove("Nxd4", "c", 6, "d", 4, "-"),
       BookMove("Qxd4", "d", 1, "d", 4, "-"), BookMove("d6", "d", 7, "d", 6, "-") >>

EnPassant ==
    << BookMove("h4", "h", 2, "h", 4, "-"), BookMove("g5", "g", 7, "g", 5, "-"),
       BookMove("hxg5", "h", 4, "g", 5, "-"), BookMove("f5", "f", 7, "f", 5, "-"),
       BookMove("gxf6", "g", 5, "f", 6, "-"), BookMove("Nxf6", "g", 8, "f", 6, "-"),
       BookMove("d4", "d", 2, "d", 4, "-"), BookMove("d5", "d", 7, "d", 5, "-"),
       BookMove("Bg5", "c", 1, "g", 5, "-"), BookMove("Bg4", "c", 8, "g", 4, "-"),
       BookMove("Bxf6", "g", 5, "f", 6, "-"), BookMove("exf6", "e", 7, "f", 6, "-") >>

PromotionTaken ==
    << BookMove("h4", "h", 2, "h", 4, "-"), BookMove("g5", "g", 7, "g", 5, "-"),
       BookMove("hxg5", "h", 4, "g", 5, "-"), BookMove("h6", "h", 7, "h", 6, "-"),
       BookMove("gxh6", "g", 5, "h", 6, "-"), BookMove("Nf6", "g", 8, "f", 6, "-"),
       BookMove("h7", "h", 6, "h", 7, "-"), BookMove("Rg8", "h", 8, "g", 8, "-"),
       BookMove("hxg8=N", "h", 7, "g", 8, "n"), BookMove("Nxg8", "f", 6, "g", 8, "-"),
       BookMove("d4", "d", 2, "d", 4, "-"), BookMove("d5", "d", 7, "d", 5, "-") >>

PromotionTakes ==
    << BookMove("h4", "h", 2, "h", 4, "-"), BookMove("g5", "g", 7, "g", 5, "-"),
       BookMove("hxg5", "h", 4, "g", 5, "-"), BookMove("h6", "h", 7, "h", 6, "-"),
       BookMove("gxh6", "g", 5, "h", 6, "-"), BookMove("Nf6", "g", 8, "f", 6, "-"),
       BookMove("h7", "h", 6, "h", 7, "-"), BookMove("Rg8", "h", 8, "g", 8, "-"),
       BookMove("hxg8=N", "h", 7, "g", 8, "n"), BookMove("Nc6", "b", 8, "c", 6, "-"),
       BookMove("Nxf6+", "g", 8, "f", 6, "-"), BookMove("exf6", "e", 7, "f", 6, "-") >>

PromotionBishop ==
    << BookMove("h4", "h", 2, "h", 4, "-"), BookMove("g5", "g", 7, "g", 5, "-"),
       BookMove("hxg5", "h", 4, "g", 5, "-"), BookMove("h6", "h", 7, "h", 6, "-"),
       BookMove("gxh6", "g", 5, "h", 6, "-"), BookMove("Nf6", "g", 8, "f", 6, "-"),
       BookMove("h7", "h", 6, "h", 7, "-"), BookMove("Rg8", "h", 8, "g", 8, "-"),
       BookMove("hxg8=B", "h", 7, "g", 8, "b"), BookMove("d6", "d", 7, "d", 6, "-"),
       BookMove("Bxf7+", "g", 8, "f", 7, "-"), BookMove("Kxf7", "e", 8, "f", 7, "-") >>

LongCastles ==
    << BookMove("d4", "d", 2, "d", 4, "-"), BookMove("d5", "d", 7, "d", 5, "-"),
       BookMove("Nc3", "b", 1, "c", 3, "-"), BookMove("Nc6", "b", 8, "c", 6, "-"),
       BookMove("Bf4", "c", 1, "f", 4, "-"), BookMove("Bf5", "c", 8, "f", 5, "-"),
       BookMove("Qd2", "d", 1, "d", 2, "-"), BookMove("Qd7", "d", 8, "d", 7, "-"),
       BookMove("O-O-O", "e", 1, "c", 1, "-"), BookMove("O-O-O", "e", 8, "c", 8, "-"),
       BookMove("Na4", "c", 3, "a", 4, "-"), BookMove("Na5", "c", 6, "a", 5, "-") >>

Shuffle ==
    << BookMove("Nf3", "g", 1, "f", 3, "-"), BookMove("Nf6", "g", 8, "f", 6, "-"),
       BookMove("Ng1", "f", 3, "g", 1, "-"), BookMove("Ng8", "f", 6, "g", 8, "-"),
       BookMove("Nf3", "g", 1, "f", 3, "-"), BookMove("Nf6", "g", 8, "f", 6, "-"),
       BookMove("Ng1", "f", 3, "g", 1, "-"), BookMove("Ng8", "f", 6, "g", 8, "-"),
       BookMove("Nf3", "g", 1, "f", 3, "-"), BookMove("Nf6", "g", 8, "f", 6, "-"),
       BookMove("Ng1", "f", 3, "g", 1, "-"), BookMove("Ng8", "f", 6, "g", 8, "-") >>

SetUpCastle ==
    << BookMove("Nf3", "d", 2, "f", 3, "-"), BookMove("Nf6", "g", 8, "f", 6, "-"),
       BookMove("e3", "e", 2, "e", 3, "-"), BookMove("e6", "e", 7, "e", 6, "-"),
       BookMove("Bd3", "f", 1, "d", 3, "-"), BookMove("Bd6", "f", 8, "d", 6, "-"),
       BookMove("O-O", "e", 1, "g", 1, "-"), BookMove("O-O", "e", 8, "g", 8, "-"),
       BookMove("Nc3", "b", 1, "c", 3, "-"), BookMove("Nc6", "b", 8, "c", 6, "-"),
       BookMove("e4", "e", 3, "e", 4, "-"), BookMove("e5", "e", 6, "e", 5, "-") >>

SetUpCapture ==
    << BookMove("Nf3", "d", 2, "f", 3, "-"), BookMove("e5", "e", 7, "e", 5, "-"),
       BookMove("dxe5", "d", 4, "e", 5, "-"), BookMove("Nc6", "b", 8, "c", 6, "-") >>

SetUpRetreat ==
    << BookMove("Nb3", "d", 2, "b", 3, "-"), BookMove("e5", "e", 7, "e", 5, "-") >>

\* The knight from d2 leaves f3 again and the knight from b1 goes to g1.
SetUpCrowd ==
    << BookMove("Nf3", "d", 2, "f", 3, "-"), BookMove("a6", "a", 7, "a", 6, "-"),
       BookMove("Ne5", "f", 3, "e", 5, "-"), BookMove("b6", "b", 7, "b", 6, "-"),
       BookMove("Nc3", "b", 1, "c", 3, "-"), BookMove("h6", "h", 7, "h", 6, "-"),
       BookMove("e3", "e", 2, "e", 3, "-"), BookMove("h5", "h", 6, "h", 5, "-"),
       BookMove("Ne2", "c", 3, "e", 2, "-"), BookMove("a5", "a", 6, "a", 5, "-"),
       BookMove("Ng1", "e", 2, "g", 1, "-"), BookMove("a4", "a", 5, "a", 4, "-") >>

SetUpLate ==
    << BookMove("Nf3", "d", 2, "f", 3, "-"), BookMove("Nf6", "g", 8, "f", 6, "-"),
       BookMove("e3", "e", 2, "e", 3, "-"), BookMove("e5", "e", 7, "e", 5, "-"),
       BookMove("Bd3", "f", 1, "d", 3, "-"), BookMove("Bd6", "f", 8, "d", 6, "-"),
       BookMove("O-O", "e", 1, "g", 1, "-"), BookMove("O-O", "e", 8, "g", 8, "-"),
       BookMove("Nc3", "b", 1, "c", 3, "-"), BookMove("Nc6", "b", 8, "c", 6, "-"),
       BookMove("dxe5", "d", 4, "e", 5, "-"), BookMove("Bxe5", "d", 6, "e", 5, "-") >>

\* Both pairs of bishops leave the board early and nothing else is
\* developed: at START_PLY every live identity is classified as before.
QuietTrade ==
    << BookMove("e3", "e", 2, "e", 3, "-"), BookMove("e6", "e", 7, "e", 6, "-"),
       BookMove("Ba6", "f", 1, "a", 6, "-"), BookMove("bxa6", "b", 7, "a", 6, "-"),
       BookMove("h4", "h", 2, "h", 4, "-"), BookMove("Ba3", "f", 8, "a", 3, "-"),
       BookMove("bxa3", "b", 2, "a", 3, "-"), BookMove("h5", "h", 7, "h", 5, "-"),
       BookMove("c4", "c", 2, "c", 4, "-"), BookMove("c5", "c", 7, "c", 5, "-"),
       BookMove("Nf3", "g", 1, "f", 3, "-"), BookMove("Nf6", "g", 8, "f", 6, "-") >>

\* The four-knights game of the first example, continued by pawn moves.
FourKnights ==
    << BookMove("e4", "e", 2, "e", 4, "-"), BookMove("e5", "e", 7, "e", 5, "-"),
       BookMove("Nf3", "g", 1, "f", 3, "-"), BookMove("Nc6", "b", 8, "c", 6, "-"),
       BookMove("Bc4", "f", 1, "c", 4, "-"), BookMove("Bc5", "f", 8, "c", 5, "-"),
       BookMove("Nc3", "b", 1, "c", 3, "-"), BookMove("Nf6", "g", 8, "f", 6, "-"),
       BookMove("d3", "d", 2, "d", 3, "-"), BookMove("d6", "d", 7, "d", 6, "-"),
       BookMove("a3", "a", 2, "a", 3, "-"), BookMove("a6", "a", 7, "a", 6, "-") >>

Book ==
    { SetUpCastle, SetUpCapture, SetUpRetreat, SetUpLate, SetUpCrowd, QuietTrade, FourKnights,
      ItalianQuiet, ItalianSacrifice, SpanishExchange, ScotchTrade,
      EnPassant, PromotionTaken, PromotionTakes, PromotionBishop,
      LongCastles, Shuffle }

\* The moves that continue a game past the end of the book.
DefaultMenu(p) ==
    IF p % 2 = 1
    THEN {BookMove("a3", "a", 2, "a", 3, "-"), BookMove("b3", "b", 2, "b", 3, "-")}
    ELSE {BookMove("b6", "b", 7, "b", 6, "-"), BookMove("h5", "h", 7, "h", 5, "-")}

\* The moves an input game can have after the moves in h.
NextMoves(h) ==
    LET lines == { g \in Book : /\ Len(g) > Len(h)
                                /\ \A i \in 1..Len(h) :
                                      /\ g[i].san = h[i].san
                                      /\ g[i].from = h[i].from
                                      /\ g[i].to = h[i].to }
    IN  IF Len(h) < Len(ItalianQuiet)
        THEN { g[Len(h) + 1] : g \in lines }
        ELSE DefaultMenu(Len(h) + 1)

\* The state when the replay loop is entered: the input has loaded on tmp
\* (from the standard position, or from the position of its FEN header),
\* walk is a fresh board and initTrackedFromPosition has run on it.
Init ==
    /\ pc = "replay"
    /\ style = [dense |-> FALSE, result |-> <<"*">>, trailing |-> TRUE, lineComment |-> FALSE, nag |-> FALSE]
    /\ setup \in BOOLEAN
    /\ tmp = (IF setup THEN SetUpPosition ELSE StartPosition)
    /\ hist = <<>>
    /\ walk = StartPosition
    /\ ply = 0
    /\ tracked = initTrackedFromPosition(StartBoard)
    /\ injections = <<>>
    /\ emittedAssumptions = FALSE
    /\ final = <<>>
    /\ TextIdle
    /\ ScoreIdle
    /\ PgnIdle
    /\ RunsIdle
    /\ CallIdle
    /\ CqlIdle

\* One iteration of the replay loop on the next move of the input game:
\* walk.move(mv.san) makes a move.
ReplayPly ==
    /\ pc = "replay"
    /\ ply < MaxPly
    /\ \E m \in NextMoves(hist) :
          /\ CanPlay(tmp, m)
          /\ LET mv == VerboseMove(tmp, m)
                 pos == MakeMove(walk, SanMove(walk, mv))
                 moved == TrackedAfterReplay(tracked, mv)
                 evals == EvalAll(moved, pos.board)
             IN  /\ Cardinality(SanOrigins(walk, mv)) = 1
                 /\ hist' = Append(hist, mv)
                 /\ tmp' = MakeMove(tmp, m)
                 /\ walk' = pos
                 /\ ply' = ply + 1
                 /\ IF BeforeStartPly(ply + 1)
                    THEN /\ tracked' = moved
                         /\ UNCHANGED <<injections, emittedAssumptions>>
                    ELSE /\ tracked' = TrackedAfterEval(moved, evals)
                         /\ injections' = injections @@
                               ((ply + 1) :> PlyInjections(moved, evals, ply + 1, mv.san,
                                                           emittedAssumptions))
                         /\ emittedAssumptions' =
                               (emittedAssumptions \/ ChangedIds(moved, evals) # <<>>)
    /\ UNCHANGED <<pc, style, setup, final>>
    /\ UNCHANGED <<textVars, scoreVars, pgnVars, runVars, callVars, cqlVars>>

\* walk.move(mv.san) makes no move for the next move of the history: the
\* loop is left, the moves from this one on stay unprocessed.
ReplayFail ==
    /\ pc = "replay"
    /\ ply < MaxPly
    /\ \E m \in NextMoves(hist) :
          /\ CanPlay(tmp, m)
          /\ Cardinality(SanOrigins(walk, VerboseMove(tmp, m))) # 1
          /\ hist' = Append(hist, VerboseMove(tmp, m))
          /\ tmp' = MakeMove(tmp, m)
    /\ pc' = "stopped"
    /\ UNCHANGED <<style, setup, walk, ply, tracked, injections, emittedAssumptions, final>>
    /\ UNCHANGED <<textVars, scoreVars, pgnVars, runVars, callVars, cqlVars>>

\* The history is exhausted (or the loop was left): the text is rebuilt.
\* The replay reads the history, not the text; the style in which the input
\* was written matters from here on only, and is drawn here.
Finalize ==
    /\ pc \in {"replay", "stopped"}
    /\ Len(hist) >= 1
    /\ \E st \in InputStyles :
          /\ style' = st
          /\ final' = FinalText(hist, st, setup, injections)
    /\ pc' = "done"
    /\ UNCHANGED <<setup, tmp, hist, walk, ply, tracked, injections, emittedAssumptions>>
    /\ UNCHANGED <<textVars, scoreVars, pgnVars, runVars, callVars, cqlVars>>

Next == ReplayPly \/ ReplayFail \/ Finalize

Spec == Init /\ [][Next]_vars

\* ------------------------------------------- highlight specification
\* The tracker when a ply from START_PLY on pushes its highlight: any of the
\* eight identities still live, on its starting square, with a stored tag
\* that depends on its colour and type.
TagLetters == {"G", "Y", "R"}

HomeTracker == initTrackedFromPosition(StartBoard)

TrackerStates ==
    { [ id \in live |->
          [HomeTracker[id]
              EXCEPT !.lastColorTag = tags[<<LabelSlot[id].color, LabelSlot[id].type>>]] ] :
      live \in SUBSET DOMAIN LabelSlot,
      tags \in [{"w", "b"} \X {"n", "b"} -> TagLetters] }

InitCsl ==
    /\ pc = "evaluated"
    /\ tracked \in TrackerStates
    /\ ply = START_PLY
    /\ injections = <<>>
    /\ style = [dense |-> FALSE, result |-> <<"*">>, trailing |-> TRUE, lineComment |-> FALSE, nag |-> FALSE]
    /\ setup = FALSE
    /\ tmp = StartPosition
    /\ hist = <<>>
    /\ walk = StartPosition
    /\ emittedAssumptions = FALSE
    /\ final = <<>>
    /\ TextIdle
    /\ ScoreIdle
    /\ PgnIdle
    /\ RunsIdle
    /\ CallIdle
    /\ CqlIdle

\* (injections[ply] ??= []).push(`{ ${cslTag} }`)
EmitHighlight ==
    /\ pc = "evaluated"
    /\ injections' = (ply :> << CslEntry(makeCslFromTracked(tracked)) >>)
    /\ pc' = "highlighted"
    /\ UNCHANGED <<style, setup, tmp, hist, walk, ply, tracked, emittedAssumptions, final>>
    /\ UNCHANGED <<textVars, scoreVars, pgnVars, runVars, callVars, cqlVars>>

NextCsl == EmitHighlight

SpecCsl == InitCsl /\ [][NextCsl]_vars

\* ------------------------------------------- two-run specification
\* Two calls of pieceTradesEval whose steps interleave.  What a call declares
\* inside its body (walk, injections, tracked, emittedAssumptions) is held
\* in the record of the call.
RunGames == { QuietTrade, FourKnights, SubSeq(ItalianSacrifice, 1, 11) }

PlainStyle ==
    [dense |-> FALSE, result |-> <<"*">>, trailing |-> TRUE, lineComment |-> FALSE, nag |-> FALSE]

\* The state of a call when its replay loop is entered.
NewRun(game) ==
    [ game |-> game, pc |-> "replay", walk |-> StartPosition, ply |-> 0,
      tracked |-> initTrackedFromPosition(StartBoard), injections |-> <<>>,
      emittedAssumptions |-> FALSE, final |-> <<>> ]

\* Mutant: the flag is one variable of the module, seen by every call.
EmittedBefore_ModuleLevel(rs, i) == \E k \in DOMAIN rs : rs[k].emittedAssumptions

\* if (emittedAssumptions) return; - the flag a call reads is its own.
EmittedBefore(rs, i) == rs[i].emittedAssumptions

\* One iteration of the replay loop of call i.
RunStep(rs, i) ==
    LET r == rs[i]
        mv == VerboseMove(r.walk, r.game[r.ply + 1])
        pos == MakeMove(r.walk, SanMove(r.walk, mv))
        moved == TrackedAfterReplay(r.tracked, mv)
        evals == EvalAll(moved, pos.board)
    IN  IF BeforeStartPly(r.ply + 1)
        THEN [r EXCEPT !.walk = pos, !.ply = r.ply + 1, !.tracked = moved]
        ELSE [r EXCEPT !.walk = pos, !.ply = r.ply + 1,
                       !.tracked = TrackedAfterEval(moved, evals),
                       !.injections = r.injections @@
                           ((r.ply + 1) :> PlyInjections(moved, evals, r.ply + 1, mv.san,
                                                         EmittedBefore(rs, i))),
                       !.emittedAssumptions =
                           (EmittedBefore(rs, i) \/ ChangedIds(moved, evals) # <<>>)]

\* The finalization of call i.
RunReturn(r) ==
    [r EXCEPT !.pc = "done",
              !.final = FinalText(r.game, PlainStyle, FALSE, r.injections)]

InitRuns ==
    /\ runs \in [1..2 -> { NewRun(g) : g \in RunGames }]
    /\ TextIdle
    /\ ScoreIdle
    /\ DriverIdle
    /\ PgnIdle
    /\ CallIdle
    /\ CqlIdle

RunReplayPly ==
    \E i \in DOMAIN runs :
        /\ runs[i].pc = "replay"
        /\ runs[i].ply < Len(runs[i].game)
        /\ runs' = [runs EXCEPT ![i] = RunStep(runs, i)]
        /\ UNCHANGED <<textVars, scoreVars, driverVars, pgnVars, callVars, cqlVars>>

RunFinalize ==
    \E i \in DOMAIN runs :
        /\ runs[i].pc = "replay"
        /\ runs[i].ply = Len(runs[i].game)
        /\ runs' = [runs EXCEPT ![i] = RunReturn(runs[i])]
        /\ UNCHANGED <<textVars, scoreVars, driverVars, pgnVars, callVars, cqlVars>>

NextRuns == RunReplayPly \/ RunFinalize

SpecRuns == InitRuns /\ [][NextRuns]_vars

\* ------------------------------------------- mock eval specification
\* mockEval of the first evals.js: the input is loaded, its moves are
\* replayed on a fresh game and written out, each with a comment.
\* isGoodDevSquare
isGoodDevSquare(pieceType, toSq, color) ==
    IF pieceType = "n"
    THEN (IF color = "w" THEN toSq \in {Sq("c", 3), Sq("f", 3)}
          ELSE toSq \in {Sq("c", 6), Sq("f", 6)})
    ELSE IF pieceType = "b"
    THEN (IF color = "w" THEN toSq \in {Sq("c", 4), Sq("f", 4)}
          ELSE toSq \in {Sq("c", 5), Sq("f", 5)})
    ELSE FALSE

\* countAttackers of the mock eval: the pieces of one colour for which
\* chess.moves({square}) lists a capture on the target; the engine lists
\* moves for the side to move only.
mockCountAttackers(pos, targetSq, color) ==
    Cardinality({ f \in Squares :
        /\ pos.board[f] # NoPiece
        /\ pos.board[f].color = color
        /\ pos.board[targetSq] # NoPiece
        /\ \E promo \in {"-", "q"} : CanPlay(pos, Mv("-", f, targetSq, promo)) })

\* The notes and marks buildMockComment collects, as they stand before the
\* fallback for a move on which no heuristic fired.
MockFindings(after, played) ==
    LET opp == Other(played.color)
        oppAtt == mockCountAttackers(after, played.to, opp)
        myDef == mockCountAttackers(after, played.to, played.color)
        loose == oppAtt >= myDef + 1
        rim == played.piece = "n" /\ isEdgeSquare(played.to)
        dev == played.piece \in {"n", "b"}
               /\ isGoodDevSquare(played.piece, played.to, played.color)
        capture == played.captured # "-"
    IN  [ notes |-> (IF loose THEN << <<"loose", " ", "piece", " ", "(attacked", " ", "more",
                                        " ", "than", " ", "defended)">> >> ELSE <<>>)
                    \o (IF rim THEN << <<"knight", " ", "on", " ", "the", " ", "rim">> >> ELSE <<>>)
                    \o (IF dev THEN << <<"good", " ", "development">> >> ELSE <<>>)
                    \o (IF capture THEN << <<"capture", " ", "on", " ">> \o SquareName(played.to) >>
                        ELSE <<>>),
          csl |-> (IF loose THEN << <<"R">> \o SquareName(played.to) >> ELSE <<>>)
                  \o (IF rim THEN << <<"Y">> \o SquareName(played.to) >> ELSE <<>>)
                  \o (IF capture THEN << <<"G">> \o SquareName(played.to) >> ELSE <<>>),
          cal |-> (IF dev THEN << <<"G">> \o SquareName(played.from) \o SquareName(played.to) >>
                   ELSE <<>>) ]

\* if (notes.length === 0) { notes.push("quiet move"); csl.push(`Y${to}`) }
MockMarks(after, played) ==
    LET f == MockFindings(after, played) IN
    IF f.notes = <<>>
    THEN [ notes |-> << <<"quiet", " ", "move">> >>,
           csl |-> << <<"Y">> \o SquareName(played.to) >>, cal |-> <<>> ]
    ELSE f

\* arr.join(sep) on a list of texts.
RECURSIVE JoinWith(_, _, _)
JoinWith(list, sep, i) ==
    IF i > Len(list) THEN <<>>
    ELSE IF i = Len(list) THEN list[i]
    ELSE list[i] \o sep \o JoinWith(list, sep, i + 1)

\* ` {mockEval: ${body}}`
buildMockComment(after, played) ==
    LET m == MockMarks(after, played)
        cslTag == IF m.csl # <<>> THEN << <<"[%csl", " ">> \o JoinWith(m.csl, <<",">>, 1) \o <<"]">> >>
                  ELSE <<>>
        calTag == IF m.cal # <<>> THEN << <<"[%cal", " ">> \o JoinWith(m.cal, <<",">>, 1) \o <<"]">> >>
                  ELSE <<>>
        tags == JoinWith(cslTag \o calTag, <<" ">>, 1)
        noteText == JoinWith(m.notes, <<";", " ">>, 1)
        body == IF tags # <<>> THEN noteText \o <<" ">> \o tags ELSE noteText
    IN  <<" ", "{", "mockEval:", " ">> \o body \o <<"}">>

\* The header lines and the opening comment mockEval writes.
MockPreamble ==
    HeaderLine("Event", <<"mockEval">>) \o <<"\n">>
    \o HeaderLine("Site", <<"?">>) \o <<"\n">>
    \o HeaderLine("Date", <<"????.??.??">>) \o <<"\n">>
    \o HeaderLine("Round", <<"-">>) \o <<"\n">>
    \o HeaderLine("White", <<"?">>) \o <<"\n">>
    \o HeaderLine("Black", <<"?">>) \o <<"\n">>
    \o HeaderLine("Result", <<"*">>) \o <<"\n", "\n">>
    \o <<"{", "mockEval:", " ", "demo", " ", "annotations;", " ", "terms", " ", "are", " ",
         "human-observable", " ", "(loose", " ", "piece,", " ", "rim", " ", "knight,", " ",
         "development,", " ", "etc.)", "}", "\n", "\n">>

\* `${moveNumber}. ` before a white move, `1... ` before a black first move.
MockMoveNumber(p, color) ==
    IF color = "w" THEN Digits((p + 1) \div 2) \o <<".", " ">>
    ELSE IF p = 1 THEN <<"1", ".", ".", ".", " ">>
    ELSE <<>>

\* The input has loaded; out holds the headers and the opening comment.
InitMock ==
    /\ pc = "mock"
    /\ setup \in BOOLEAN
    /\ tmp = (IF setup THEN SetUpPosition ELSE StartPosition)
    /\ hist = <<>>
    /\ walk = StartPosition
    /\ ply = 0
    /\ final = MockPreamble
    /\ style = PlainStyle
    /\ tracked = <<>>
    /\ injections = <<>>
    /\ emittedAssumptions = FALSE
    /\ TextIdle
    /\ ScoreIdle
    /\ PgnIdle
    /\ RunsIdle
    /\ CallIdle
    /\ CqlIdle

\* One iteration of the loop of mockEval: game.move(m.san) makes a move.
MockPly ==
    /\ pc = "mock"
    /\ ply < MaxPly
    /\ \E m \in NextMoves(hist) :
          /\ CanPlay(tmp, m)
          /\ LET mv == VerboseMove(tmp, m)
                 played == VerboseMove(walk, SanMove(walk, mv))
                 after == MakeMove(walk, SanMove(walk, mv))
             IN  /\ Cardinality(SanOrigins(walk, mv)) = 1
                 /\ hist' = Append(hist, mv)
                 /\ tmp' = MakeMove(tmp, m)
                 /\ walk' = after
                 /\ ply' = ply + 1
                 /\ final' = final \o MockMoveNumber(ply + 1, mv.color)
                                \o <<mv.san>> \o buildMockComment(after, played) \o <<" ">>
                                \o (IF mv.color = "w" THEN <<>> ELSE <<"\n">>)
    /\ UNCHANGED <<pc, style, setup, tracked, injections, emittedAssumptions>>
    /\ UNCHANGED <<textVars, scoreVars, pgnVars, runVars, callVars, cqlVars>>

\* game.move(m.san) makes no move: a note is written and the loop is left.
MockFail ==
    /\ pc = "mock"
    /\ ply < MaxPly
    /\ \E m \in NextMoves(hist) :
          /\ CanPlay(tmp, m)
          /\ Cardinality(SanOrigins(walk, VerboseMove(tmp, m))) # 1
          /\ hist' = Append(hist, VerboseMove(tmp, m))
          /\ tmp' = MakeMove(tmp, m)
          /\ final' = final \o MockMoveNumber(ply + 1, VerboseMove(tmp, m).color)
                         \o <<"{", "mockEval:", " ", "failed", " ", "to", " ", "replay", " ",
                              "move", " ", "\"", m.san, "\"", " ", "at", " ", "ply", " ">>
                         \o Digits(ply + 1) \o <<"}", " ">>
    /\ pc' = "mockStopped"
    /\ UNCHANGED <<style, setup, walk, ply, tracked, injections, emittedAssumptions>>
    /\ UNCHANGED <<textVars, scoreVars, pgnVars, runVars, callVars, cqlVars>>

\* out += "\n*"; return { pgn: out }
MockReturn ==
    /\ pc \in {"mock", "mockStopped"}
    /\ final' = final \o <<"\n", "*">>
    /\ pc' = "mockDone"
    /\ UNCHANGED <<style, setup, tmp, hist, walk, ply, tracked, injections, emittedAssumptions>>
    /\ UNCHANGED <<textVars, scoreVars, pgnVars, runVars, callVars, cqlVars>>

NextMock == MockPly \/ MockFail \/ MockReturn

SpecMock == InitMock /\ [][NextMock]_vars

\* ------------------------------------------------ query specification
\* countMatchedPreconditions of chess_query.js, applied to positions and
\* queries drawn from small sets.
MaxPreds == 2

Ref(text) == [kind |-> "string", text |-> text]

\* What `pred?.piece?.ref` gives when there is no such field.
NoRef == [kind |-> "undefined", text |-> <<>>]

Pred(op, piece, attacker, target, assert) ==
    [op |-> op, piece |-> piece, attacker |-> attacker, target |-> target, assert |-> assert]

isUpper(ch) ==
    ch \in {"A", "B", "C", "D", "E", "F", "G", "H", "I", "J", "K", "L", "M",
            "N", "O", "P", "Q", "R", "S", "T", "U", "V", "W", "X", "Y", "Z"}

\* ch.toLowerCase() on the letters a reference starts with.
toLowerCase(ch) ==
    CASE ch = "P" -> "p" [] ch = "N" -> "n" [] ch = "B" -> "b"
      [] ch = "R" -> "r" [] ch = "Q" -> "q" [] ch = "K" -> "k"
      [] OTHER -> ch

\* chess.get(square): the piece on the square of that name, NoPiece for an
\* empty square and for a name that is no square.
EngineGet(pos, name) ==
    IF \E sq \in Squares : SquareName(sq) = name
    THEN pos.board[CHOOSE sq \in Squares : SquareName(sq) = name]
    ELSE NoPiece

\* chess.moves({ square, verbose: true }): the moves of the piece on the
\* square, each with its destination and whether it captures.
EngineMoves(pos, name) ==
    IF ~\E sq \in Squares : SquareName(sq) = name THEN {}
    ELSE LET from == CHOOSE sq \in Squares : SquareName(sq) = name
         IN  { [to |-> SquareName(t),
                captured |-> \/ pos.board[t] # NoPiece
                             \/ IsEnPassant(pos, Mv("-", from, t, "-"))] :
               t \in { u \in Squares : \E promo \in {"-", "q"} :
                                          CanPlay(pos, Mv("-", from, u, promo)) } }

matchesAt(pos, pieceRef) ==
    IF pieceRef.kind # "string" \/ Len(pieceRef.text) # 3 THEN FALSE
    ELSE LET pieceChar == pieceRef.text[1]
             piece == EngineGet(pos, SubSeq(pieceRef.text, 2, 3))
         IN  IF piece = NoPiece THEN FALSE
             ELSE /\ piece.type = toLowerCase(pieceChar)
                  /\ piece.color = (IF isUpper(pieceChar) THEN "w" ELSE "b")

\* matchesAttacks: the result and the lines it logs.
matchesAttacks(pos, attackerRef, targetRef, verbose) ==
    IF attackerRef.kind # "string" \/ targetRef.kind # "string"
    THEN [ok |-> FALSE, log |-> <<>>]
    ELSE IF Len(attackerRef.text) # 3 \/ Len(targetRef.text) # 3
    THEN [ok |-> FALSE, log |-> <<>>]
    ELSE LET attackerChar == attackerRef.text[1]
             attackerSquare == SubSeq(attackerRef.text, 2, 3)
             targetChar == targetRef.text[1]
             targetSquare == SubSeq(targetRef.text, 2, 3)
             attacker == EngineGet(pos, attackerSquare)
             target == EngineGet(pos, targetSquare)
             attackerColor == IF isUpper(attackerChar) THEN "w" ELSE "b"
             targetColor == IF isUpper(targetChar) THEN "w" ELSE "b"
             chessTurned == [pos EXCEPT !.turn = attackerColor]
             moves == EngineMoves(chessTurned, attackerSquare)
             ok == \E m \in moves : m.to = targetSquare /\ m.captured
         IN  IF attacker = NoPiece \/ target = NoPiece
             THEN [ok |-> FALSE, log |-> <<>>]
             ELSE IF attacker.type # toLowerCase(attackerChar) \/ attacker.color # attackerColor
             THEN [ok |-> FALSE, log |-> <<>>]
             ELSE IF target.type # toLowerCase(targetChar) \/ target.color # targetColor
             THEN [ok |-> FALSE, log |-> <<>>]
             ELSE [ok |-> ok,
                   log |-> IF verbose /\ ~ok
                           THEN << <<"(debug)", attackerRef.text, moves>> >>
                           ELSE <<>>]

\* Mutant: a predicate with an op the switch does not know is taken as met.
RawResult_UnknownMatches(pos, pred, verbose) ==
    IF pred.op = "at" THEN [ok |-> matchesAt(pos, pred.piece), log |-> <<>>]
    ELSE IF pred.op = "attacks"
    THEN matchesAttacks(pos, pred.attacker, pred.target, verbose)
    ELSE [ok |-> TRUE, log |-> <<>>]

\* The switch on pred?.op: the raw result and what matchesAttacks logged.
RawResult(pos, pred, verbose) ==
    IF pred.op = "at" THEN [ok |-> matchesAt(pos, pred.piece), log |-> <<>>]
    ELSE IF pred.op = "attacks"
    THEN matchesAttacks(pos, pred.attacker, pred.target, verbose)
    ELSE [ok |-> FALSE, log |-> <<>>]

\* Mutant: a predicate without an assert field asserts false.
assertValue_DefaultFalse(pred) == pred.assert = "true"

\* const assertValue = pred?.assert !== false
assertValue(pred) == pred.assert # "false"

\* The loop over the predicates from index i on, with the count and the log
\* so far.
RECURSIVE MatchLoop(_, _, _, _, _, _)
MatchLoop(pos, predicates, verbose, i, matched, log) ==
    IF i > Len(predicates) THEN [matched |-> matched, log |-> log]
    ELSE LET pred == predicates[i]
             raw == RawResult(pos, pred, verbose)
             ok == IF assertValue(pred) THEN raw.ok ELSE ~raw.ok
             line == << <<"predicate", i - 1, pred.op, "raw", raw.ok, "assert", assertValue(pred),
                          "final", ok>> >>
         IN  MatchLoop(pos, predicates, verbose, i + 1,
                       IF ok THEN matched + 1 ELSE matched,
                       log \o raw.log \o (IF verbose THEN line ELSE <<>>))

\* Mutant: the verbose call answers with the number of results it listed.
countMatchedPreconditions_VerboseResults(fen, queryJson, options) ==
    LET predicates == IF queryJson.kind = "object" /\ queryJson.hasPredicates
                      THEN queryJson.predicates ELSE <<>>
        verbose == options.verbose = "true"
        run == MatchLoop(fen, predicates, verbose, 1, 0,
                         IF verbose THEN << <<"FEN", fen>>, <<"Predicates", Len(predicates)>> >>
                         ELSE <<>>)
    IN  [value |-> IF verbose THEN Len(predicates) ELSE run.matched,
         log |-> run.log \o (IF verbose THEN << <<"Matched", run.matched, Len(predicates)>> >>
                             ELSE <<>>)]

\* countMatchedPreconditions: the number it returns and what it logged.
countMatchedPreconditions(fen, queryJson, options) ==
    LET predicates == IF queryJson.kind = "object" /\ queryJson.hasPredicates
                      THEN queryJson.predicates ELSE <<>>
        verbose == options.verbose = "true"
        run == MatchLoop(fen, predicates, verbose, 1, 0,
                         IF verbose THEN << <<"FEN", fen>>, <<"Predicates", Len(predicates)>> >>
                         ELSE <<>>)
    IN  [value |-> run.matched,
         log |-> run.log \o (IF verbose THEN << <<"Matched", run.matched, Len(predicates)>> >>
                             ELSE <<>>)]

\* r1bqkbnr/pppppppp/2n5/6N1/8/3B4/PPPPPPPP/RNBQK2R b KQkq - 0 1
GreekGiftPosition ==
    [ board |-> [ sq \in Squares |->
                    IF sq \in {Sq("b", 8), Sq("f", 1), Sq("g", 1)} THEN NoPiece
                    ELSE IF sq = Sq("c", 6) THEN Piece("n", "b")
                    ELSE IF sq = Sq("g", 5) THEN Piece("n", "w")
                    ELSE IF sq = Sq("d", 3) THEN Piece("b", "w")
                    ELSE StartBoard[sq] ],
      turn |-> "b", ep |-> -1, castle |-> {"K", "Q", "k", "q"} ]

\* r1bqkbnr/pppppppp/2n5/8/8/3B1N2/PPPPPPPP/RNBQK2R b KQkq - 0 1
KnightHomePosition ==
    [ GreekGiftPosition EXCEPT
        !.board = [ sq \in Squares |->
                      IF sq = Sq("g", 5) THEN NoPiece
                      ELSE IF sq = Sq("f", 3) THEN Piece("n", "w")
                      ELSE GreekGiftPosition.board[sq] ] ]

QueryPositions == { GreekGiftPosition, KnightHomePosition, StartPosition }

PredMenu ==
    { Pred("at", Ref(<<"B", "d", "3">>), NoRef, NoRef, "undefined"),
      Pred("at", Ref(<<"N", "g", "5">>), NoRef, NoRef, "undefined"),
      Pred("at", Ref(<<"N", "g", "5">>), NoRef, NoRef, "false"),
      Pred("at", Ref(<<"B", "d">>), NoRef, NoRef, "undefined"),
      Pred("at", NoRef, NoRef, NoRef, "true"),
      Pred("attacks", NoRef, Ref(<<"N", "g", "5">>), Ref(<<"p", "h", "7">>), "undefined"),
      Pred("attacks", NoRef, Ref(<<"B", "d", "3">>), Ref(<<"p", "h", "7">>), "true"),
      Pred("attacks", NoRef, Ref(<<"B", "d", "3">>), Ref(<<"p", "h", "7">>), "false"),
      Pred("attacks", NoRef, Ref(<<"B", "d", "3">>), Ref(<<"p", "g", "7">>), "undefined"),
      Pred("attacks", NoRef, Ref(<<"N", "g", "5">>), Ref(<<"P", "h", "7">>), "undefined"),
      Pred("at", Ref(<<"B", "d">>), NoRef, NoRef, "false"),
      Pred("near", NoRef, NoRef, NoRef, "false"),
      Pred("near", Ref(<<"B", "d", "3">>), NoRef, NoRef, "true"),
      Pred("undefined", NoRef, NoRef, NoRef, "undefined") }

PredLists == UNION { [1..n -> PredMenu] : n \in 0..MaxPreds }

\* A query object with a predicate list, one without, and no query at all.
Queries ==
    { [kind |-> "object", hasPredicates |-> TRUE, predicates |-> l] : l \in PredLists }
    \cup { [kind |-> "object", hasPredicates |-> FALSE, predicates |-> <<>>],
           [kind |-> "null", hasPredicates |-> FALSE, predicates |-> <<>>] }

\* options.verbose: true, false, absent, or a value that is not a boolean.
VerboseOptions == {"true", "false", "undefined", "yes"}

InitQuery ==
    /\ callArgs \in [ fen : QueryPositions, queryJson : Queries,
                      options : [verbose : VerboseOptions] ]
    /\ callResult = <<>>
    /\ callpc = "query"
    /\ TextIdle
    /\ ScoreIdle
    /\ DriverIdle
    /\ PgnIdle
    /\ RunsIdle
    /\ CqlIdle

CallCount ==
    /\ callpc = "query"
    /\ callResult' = countMatchedPreconditions(callArgs.fen, callArgs.queryJson, callArgs.options)
    /\ callpc' = "counted"
    /\ UNCHANGED callArgs
    /\ UNCHANGED <<textVars, scoreVars, driverVars, pgnVars, runVars, cqlVars>>

NextQuery == CallCount

SpecQuery == InitQuery /\ [][NextQuery]_vars

\* ----------------------------------------------- geometry specification
\* forkable of geometry.js. A 64-bit mask is written as its 16 hexadecimal
\* digits, the highest first: bit 0 = a1, bit 7 = h1, bit 56 = a8, bit 63 = h8.
KNIGHT_ATTACKS ==
    <<
       <<0,0,0,0,0,0,0,0,0,0,0,2,0,4,0,0>>,   \* a1 0x0000000000020400n
       <<0,0,0,0,0,0,0,0,0,0,0,5,0,8,0,0>>,   \* b1 0x0000000000050800n
       <<0,0,0,0,0,0,0,0,0,0,0,10,1,1,0,0>>,   \* c1 0x00000000000a1100n
       <<0,0,0,0,0,0,0,0,0,0,1,4,2,2,0,0>>,   \* d1 0x0000000000142200n
       <<0,0,0,0,0,0,0,0,0,0,2,8,4,4,0,0>>,   \* e1 0x0000000000284400n
       <<0,0,0,0,0,0,0,0,0,0,5,0,8,8,0,0>>,   \* f1 0x0000000000508800n
       <<0,0,0,0,0,0,0,0,0,0,10,0,1,0,0,0>>,   \* g1 0x0000000000a01000n
       <<0,0,0,0,0,0,0,0,0,0,4,0,2,0,0,0>>,   \* h1 0x0000000000402000n
       <<0,0,0,0,0,0,0,0,0,2,0,4,0,0,0,4>>,   \* a2 0x0000000002040004n
       <<0,0,0,0,0,0,0,0,0,5,0,8,0,0,0,8>>,   \* b2 0x0000000005080008n
       <<0,0,0,0,0,0,0,0,0,10,1,1,0,0,1,1>>,   \* c2 0x000000000a110011n
       <<0,0,0,0,0,0,0,0,1,4,2,2,0,0,2,2>>,   \* d2 0x0000000014220022n
       <<0,0,0,0,0,0,0,0,2,8,4,4,0,0,4,4>>,   \* e2 0x0000000028440044n
       <<0,0,0,0,0,0,0,0,5,0,8,8,0,0,8,8>>,   \* f2 0x0000000050880088n
       <<0,0,0,0,0,0,0,0,10,0,1,0,0,0,1,0>>,   \* g2 0x00000000a0100010n
       <<0,0,0,0,0,0,0,0,4,0,2,0,0,0,2,0>>,   \* h2 0x0000000040200020n
       <<0,0,0,0,0,0,0,2,0,4,0,0,0,4,0,2>>,   \* a3 0x0000000204000402n
       <<0,0,0,0,0,0,0,5,0,8,0,0,0,8,0,5>>,   \* b3 0x0000000508000805n
       <<0,0,0,0,0,0,0,10,1,1,0,0,1,1,0,10>>,   \* c3 0x0000000a1100110an
       <<0,0,0,0,0,0,1,4,2,2,0,0,2,2,1,4>>,   \* d3 0x0000001422002214n
       <<0,0,0,0,0,0,2,8,4,4,0,0,4,4,2,8>>,   \* e3 0x0000002844004428n
       <<0,0,0,0,0,0,5,0,8,8,0,0,8,8,5,0>>,   \* f3 0x0000005088008850n
       <<0,0,0,0,0,0,10,0,1,0,0,0,1,0,10,0>>,   \* g3 0x000000a0100010a0n
       <<0,0,0,0,0,0,4,0,2,0,0,0,2,0,4,0>>,   \* h3 0x0000004020002040n
       <<0,0,0,0,0,2,0,4,0,0,0,4,0,2,0,0>>,   \* a4 0x0000020400040200n
       <<0,0,0,0,0,5,0,8,0,0,0,8,0,5,0,0>>,   \* b4 0x0000050800080500n
       <<0,0,0,0,0,10,1,1,0,0,1,1,0,10,0,0>>,   \* c4 0x00000a1100110a00n
       <<0,0,0,0,1,4,2,2,0,0,2,2,1,4,0,0>>,   \* d4 0x0000142200221400n
       <<0,0,0,0,2,8,4,4,0,0,4,4,2,8,0,0>>,   \* e4 0x0000284400442800n
       <<0,0,0,0,5,0,8,8,0,0,8,8,5,0,0,0>>,   \* f4 0x0000508800885000n
       <<0,0,0,0,10,0,1,0,0,0,1,0,10,0,0,0>>,   \* g4 0x0000a0100010a000n
       <<0,0,0,0,4,0,2,0,0,0,2,0,4,0,0,0>>,   \* h4 0x0000402000204000n
       <<0,0,0,2,0,4,0,0,0,4,0,2,0,0,0,0>>,   \* a5 0x0002040004020000n
       <<0,0,0,5,0,8,0,0,0,8,0,5,0,0,0,0>>,   \* b5 0x0005080008050000n
       <<0,0,0,10,1,1,0,0,1,1,0,10,0,0,0,0>>,   \* c5 0x000a1100110a0000n
       <<0,0,1,4,2,2,0,0,2,2,1,4,0,0,0,0>>,   \* d5 0x0014220022140000n
       <<0,0,2,8,4,4,0,0,4,4,2,8,0,0,0,0>>,   \* e5 0x0028440044280000n
       <<0,0,5,0,8,8,0,0,8,8,5,0,0,0,0,0>>,   \* f5 0x0050880088500000n
       <<0,0,10,0,1,0,0,0,1,0,10,0,0,0,0,0>>,   \* g5 0x00a0100010a00000n
       <<0,0,4,0,2,0,0,0,2,0,4,0,0,0,0,0>>,   \* h5 0x0040200020400000n
       <<0,2,0,4,0,0,0,4,0,2,0,0,0,0,0,0>>,   \* a6 0x0204000402000000n
       <<0,5,0,8,0,0,0,8,0,5,0,0,0,0,0,0>>,   \* b6 0x0508000805000000n
       <<0,10,1,1,0,0,1,1,0,10,0,0,0,0,0,0>>,   \* c6 0x0a1100110a000000n
       <<1,4,2,2,0,0,2,2,1,4,0,0,0,0,0,0>>,   \* d6 0x1422002214000000n
       <<2,8,4,4,0,0,4,4,2,8,0,0,0,0,0,0>>,   \* e6 0x2844004428000000n
       <<5,0,8,8,0,0,8,8,5,0,0,0,0,0,0,0>>,   \* f6 0x5088008850000000n
       <<10,0,1,0,0,0,1,0,10,0,0,0,0,0,0,0>>,   \* g6 0xa0100010a0000000n
       <<4,0,2,0,0,0,2,0,4,0,0,0,0,0,0,0>>,   \* h6 0x4020002040000000n
       <<0,4,0,0,0,4,0,2,0,0,0,0,0,0,0,0>>,   \* a7 0x0400040200000000n
       <<0,8,0,0,0,8,0,5,0,0,0,0,0,0,0,0>>,   \* b7 0x0800080500000000n
       <<1,1,0,0,1,1,0,10,0,0,0,0,0,0,0,0>>,   \* c7 0x1100110a00000000n
       <<2,2,0,0,2,2,1,4,0,0,0,0,0,0,0,0>>,   \* d7 0x2200221400000000n
       <<4,4,0,0,4,4,2,8,0,0,0,0,0,0,0,0>>,   \* e7 0x4400442800000000n
       <<8,8,0,0,8,8,5,0,0,0,0,0,0,0,0,0>>,   \* f7 0x8800885000000000n
       <<1,0,0,0,1,0,10,0,0,0,0,0,0,0,0,0>>,   \* g7 0x100010a000000000n
       <<2,0,0,0,2,0,4,0,0,0,0,0,0,0,0,0>>,   \* h7 0x2000204000000000n
       <<0,0,0,4,0,2,0,0,0,0,0,0,0,0,0,0>>,   \* a8 0x0004020000000000n
       <<0,0,0,8,0,5,0,0,0,0,0,0,0,0,0,0>>,   \* b8 0x0008050000000000n
       <<0,0,1,1,0,10,0,0,0,0,0,0,0,0,0,0>>,   \* c8 0x00110a0000000000n
       <<0,0,2,2,1,4,0,0,0,0,0,0,0,0,0,0>>,   \* d8 0x0022140000000000n
       <<0,0,4,4,2,8,0,0,0,0,0,0,0,0,0,0>>,   \* e8 0x0044280000000000n
       <<0,0,8,8,5,0,0,0,0,0,0,0,0,0,0,0>>,   \* f8 0x0088500000000000n
       <<0,0,1,0,10,0,0,0,0,0,0,0,0,0,0,0>>,   \* g8 0x0010a00000000000n
       <<0,0,2,0,4,0,0,0,0,0,0,0,0,0,0,0>>    \* h8 0x0020400000000000n
    >>

\* The bits of a hexadecimal digit, the lowest first.
NibbleBits(d) == [ k \in 0..3 |-> (d \div (2 ^ k)) % 2 ]

\* Mutant: the two masks are joined instead of intersected.
BitAnd_Or(ma, mb) ==
    [ i \in 1..16 |->
        LET x == NibbleBits(ma[i])
            y == NibbleBits(mb[i])
            bit(k) == IF x[k] = 1 \/ y[k] = 1 THEN 1 ELSE 0
        IN  bit(0) + 2 * bit(1) + 4 * bit(2) + 8 * bit(3) ]

\* ma & mb
BitAnd(ma, mb) ==
    [ i \in 1..16 |->
        LET x == NibbleBits(ma[i])
            y == NibbleBits(mb[i])
        IN  x[0] * y[0] + 2 * (x[1] * y[1]) + 4 * (x[2] * y[2]) + 8 * (x[3] * y[3]) ]

\* mask !== 0n
NonZero(mask) == \E i \in 1..16 : mask[i] # 0

\* (mask & (1n << BigInt(index))) !== 0n
bitAt(mask, index) == NibbleBits(mask[16 - (index \div 4)])[index % 4] = 1

\* "abcdefgh".indexOf(ch)
FileIndexOf(ch) ==
    IF \E i \in 1..8 : FILES[i] = ch THEN (CHOOSE i \in 1..8 : FILES[i] = ch) - 1 ELSE -1

\* The character codes of the symbols a square text of the model can hold.
CharCode(ch) ==
    CASE ch = "0" -> 48 [] ch = "1" -> 49 [] ch = "2" -> 50 [] ch = "3" -> 51
      [] ch = "4" -> 52 [] ch = "5" -> 53 [] ch = "6" -> 54 [] ch = "7" -> 55
      [] ch = "8" -> 56 [] ch = "9" -> 57 [] ch = " " -> 32 [] ch = "A" -> 65
      [] ch = "a" -> 97 [] ch = "b" -> 98 [] ch = "c" -> 99 [] ch = "d" -> 100
      [] ch = "e" -> 101 [] ch = "f" -> 102 [] ch = "g" -> 103 [] ch = "h" -> 104
      [] ch = "i" -> 105 [] ch = "x" -> 120

\* squareToIndex: the index, or raised when the text is no square.
squareToIndex(sq) ==
    IF sq.kind # "string" \/ Len(sq.text) # 2 THEN [raised |-> TRUE, index |-> -1]
    ELSE LET file == FileIndexOf(sq.text[1])
             rank == CharCode(sq.text[2]) - CharCode("1")
         IN  IF file < 0 \/ rank < 0 \/ rank > 7 THEN [raised |-> TRUE, index |-> -1]
             ELSE [raised |-> FALSE, index |-> rank * 8 + file]

\* forkable: what it returns and logs, or that it raised.
forkable(squareA, squareB, options) ==
    LET verbose == options.verbose = "true"
        a == squareToIndex(squareA)
        b == squareToIndex(squareB)
    IN  IF a.raised \/ b.raised THEN [raised |-> TRUE, value |-> FALSE, log |-> <<>>]
        ELSE LET ma == KNIGHT_ATTACKS[a.index + 1]
                 mb == KNIGHT_ATTACKS[b.index + 1]
                 inter == BitAnd(ma, mb)
                 ok == NonZero(inter)
             IN  [raised |-> FALSE, value |-> ok,
                  log |-> IF verbose
                          THEN << <<"A", squareA.text, a.index>>, <<"attacks", ma>>,
                                  <<"B", squareB.text, b.index>>, <<"attacks", mb>>,
                                  <<"Intersection", inter>>, <<"Result", ok>> >>
                          ELSE <<>>]

\* The texts handed in as squares: the 64 names and texts that name none.
SquareTexts ==
    { Ref(SquareName(sq)) : sq \in Squares }
    \cup { Ref(<<"a", "9">>), Ref(<<"a", "0">>), Ref(<<"i", "1">>), Ref(<<"A", "1">>),
           Ref(<<"a", "x">>), Ref(<<"a", " ">>), Ref(<<"a">>), Ref(<<"a", "1", " ">>),
           Ref(<<>>), NoRef }

InitFork ==
    /\ callArgs \in [ squareA : SquareTexts, squareB : SquareTexts,
                      options : [verbose : {"true", "undefined"}] ]
    /\ callResult = <<>>
    /\ callpc = "fork"
    /\ TextIdle
    /\ ScoreIdle
    /\ DriverIdle
    /\ PgnIdle
    /\ RunsIdle
    /\ CqlIdle

CallForkable ==
    /\ callpc = "fork"
    /\ callResult' = forkable(callArgs.squareA, callArgs.squareB, callArgs.options)
    /\ callpc' = "forked"
    /\ UNCHANGED callArgs
    /\ UNCHANGED <<textVars, scoreVars, driverVars, pgnVars, runVars, cqlVars>>

NextFork == CallForkable

SpecFork == InitFork /\ [][NextFork]_vars

\* ------------------------------------------- text function specifications
\* The input texts: a header block, a blank line, a move text and an ending,
\* each drawn from a few shapes.
HeaderOf(key, value) == HeaderLine(key, <<value>>)

InputHeaders ==
    { <<>>,
      HeaderOf("Event", "x"),
      HeaderOf("Event", "x") \o <<"\n">> \o HeaderLine("Result", <<"1", "-", "0">>),
      HeaderLine("Result", <<"1", "-", "0">>) \o <<"\n">> \o HeaderOf("Event", "x"),
      HeaderOf("White", "x") \o <<"\n">> \o HeaderLine("Result", <<"0", "-", "1">>)
          \o <<"\n">> \o HeaderOf("Annotator", "y"),
      HeaderOf("Site", "x") \o <<"\n">> \o HeaderLine("Result", <<"1", "/", "2">>),
      HeaderOf("Event", "x") \o <<"\n">> \o HeaderOf("Event", "y"),
      HeaderLine("Event", EvalHeaders[1].value) \o <<"\n">> \o HeaderOf("Result", "*")
          \o <<"\n">> \o HeaderLine("Annotator", EvalHeaders[2].value) }

\* A word of 900 characters.
Filler100 ==
    "xxxxxxxxxxxxxxxxxxxxxxxxxxxxxxxxxxxxxxxxxxxxxxxxxx"
    \o "xxxxxxxxxxxxxxxxxxxxxxxxxxxxxxxxxxxxxxxxxxxxxxxxxx"

Filler300 == Filler100 \o Filler100 \o Filler100

Filler == Filler300 \o Filler300 \o Filler300

InputBodies ==
    { <<>>,
      <<"1", ".", " ", "e4", " ", "e5">>,
      <<"1", ".", " ", "e4", " ", "{", "x", "}", " ", "e5", " ",
        "2", ".", " ", "Nf3", " ", "Nc6">>,
      <<"1", ".", " ", "e4", " ", "zz">>,
      <<"1", ".", " ", "e4", " ", "e5", " ", "{", " ", "[%csl", " ", "Y", "e", "4", "]", " ", "}">>,
      <<"zz", " ", "{", Filler, "}">>,
      <<"1", ".", "e4", " ", "e5", " ", "{", "x", "}", " ", "2", ".", "Nf3">> }

InputEndings ==
    { <<>>, <<" ", "*">>, <<" ", "1", "-", "0">>, <<" ", "*", " ", "{", "y", "}">>, <<"\n">> }

InputText(h, b, e) ==
    h \o (IF h = <<>> THEN <<>> ELSE <<"\n", "\n">>) \o TrimStart(b \o e)

PgnInputs == { InputText(h, b, e) : h \in InputHeaders, b \in InputBodies, e \in InputEndings }

\* The override maps handed to ensureHeaders.
OverrideMaps ==
    { <<>>, EvalHeaders, << [key |-> "Round", value |-> <<"1">>] >> }

InitPgn ==
    /\ gIn \in PgnInputs
    /\ gExtra = <<>>
    /\ gBase = <<>>
    /\ gOut = <<>>
    /\ gpc = "input"
    /\ TextIdle
    /\ ScoreIdle
    /\ DriverIdle
    /\ RunsIdle
    /\ CallIdle
    /\ CqlIdle

\* ensureHeaders(gIn, extra)
EnsureHeaders ==
    /\ gpc = "input"
    /\ \E extra \in OverrideMaps :
          /\ gExtra' = extra
          /\ gOut' = ensureHeaders(gIn, extra)
    /\ gpc' = "headers"
    /\ UNCHANGED <<gIn, gBase>>
    /\ UNCHANGED <<textVars, scoreVars, driverVars, runVars, callVars, cqlVars>>

NextHeaders == EnsureHeaders

SpecHeaders == InitPgn /\ [][NextHeaders]_vars

\* Texts whose header lines are followed by the moves, or by nothing,
\* without a blank line.
TightInputs ==
    { h \o b :
        h \in { HeaderOf("Event", "x"),
                HeaderOf("Event", "x") \o <<"\n">> \o HeaderLine("Result", <<"1", "-", "0">>) },
        b \in { <<>>, <<"\n">>, <<"\n", "1", ".", " ", "e4", " ", "e5">>,
                <<"\n", "1", ".", " ", "e4", " ", "e5", " ", "*", "\n">> } }

InitSeparator ==
    /\ gIn \in PgnInputs \cup TightInputs
    /\ gExtra = <<>>
    /\ gBase = <<>>
    /\ gOut = <<>>
    /\ gpc = "input"
    /\ TextIdle
    /\ ScoreIdle
    /\ DriverIdle
    /\ RunsIdle
    /\ CallIdle
    /\ CqlIdle

SpecSeparator == InitSeparator /\ [][NextHeaders]_vars

\* ensureTrailingResult(gIn)
EnsureTrailingResult ==
    /\ gpc = "input"
    /\ gOut' = ensureTrailingResult(gIn)
    /\ gpc' = "result"
    /\ UNCHANGED <<gIn, gExtra, gBase>>
    /\ UNCHANGED <<textVars, scoreVars, driverVars, runVars, callVars, cqlVars>>

NextResult == EnsureTrailingResult

SpecResult == InitPgn /\ [][NextResult]_vars

\* pieceTradesEval(gIn), up to the parse check.
Normalize ==
    /\ gpc = "input"
    /\ gExtra' = EvalHeaders
    /\ gBase' = ensureHeaders(gIn, EvalHeaders)
    /\ gpc' = "normalized"
    /\ UNCHANGED <<gIn, gOut>>
    /\ UNCHANGED <<textVars, scoreVars, driverVars, runVars, callVars, cqlVars>>

\* if (!ok): the fallback record is returned.
ParseFailure ==
    /\ gpc = "normalized"
    /\ ~tryLoadPgn(gBase)
    /\ gOut' = FallbackText(gBase)
    /\ gpc' = "fallback"
    /\ UNCHANGED <<gIn, gExtra, gBase>>
    /\ UNCHANGED <<textVars, scoreVars, driverVars, runVars, callVars, cqlVars>>

\* The identities after the replay of a game that ends before START_PLY.
RECURSIVE ReplayShort(_, _, _)
ReplayShort(pos, trk, moves) ==
    IF moves = <<>> THEN trk
    ELSE ReplayShort(MakeMove(pos, moves[1]),
                     TrackedAfterReplay(trk, VerboseMove(pos, moves[1])),
                     Tail(moves))

\* The rest of pieceTradesEval for an input that loaded; the games of
\* PgnInputs end before START_PLY, so that the loop injects nothing.
Annotate ==
    /\ gpc = "normalized"
    /\ tryLoadPgn(gBase)
    /\ gOut' = AnnotatedText(gBase, <<>>)
    /\ gpc' = "annotated"
    /\ ply' = Len(loadPgn(gBase).history)
    /\ tracked' = ReplayShort(StartPosition, initTrackedFromPosition(StartBoard),
                              loadPgn(gBase).history)
    /\ UNCHANGED <<gIn, gExtra, gBase>>
    /\ UNCHANGED <<pc, style, setup, tmp, hist, walk, injections, emittedAssumptions, final>>
    /\ UNCHANGED <<textVars, scoreVars, runVars, callVars, cqlVars>>

NextRun == Normalize \/ ParseFailure \/ Annotate

SpecRun == InitPgn /\ [][NextRun]_vars

\* ------------------------------------------------------------------ claims

\* C2: reconstruction is strictly additive - every input token is in the
\* output, in the original order, with nothing deleted, also the tokens that
\* follow the first Result token.
C2_AllTokensKept ==
    tpc = "rebuilt" => IsSubseq(tToks, tOut)

\* C3: round trip - tokenizing a move text and rebuilding it with an empty
\* injection map gives the input again, whitespace aside.
C3_RoundTrip ==
    (tpc = "rebuilt" /\ tInj = <<>>)
        => StripSpace(JoinFrom(tOut, 1)) = StripSpace(tIn)

\* The score deltas of the six rules, each stated on its own.
LooseDelta(x) == IF x.oppAtt >= x.myDef + 1 THEN -4 ELSE 0

TensionDelta(x) == IF x.oppAtt > 0 THEN -1 ELSE 1

StabilityDelta(x) == IF x.myDef >= 1 /\ x.oppAtt <= 1 THEN 2 ELSE 0

BadBishopDelta(x) == IF x.type # "b" THEN 0 ELSE IF x.pawns >= 5 THEN -2 ELSE 1

RimKnightDelta(x) == IF x.type # "n" THEN 0 ELSE IF x.edge THEN -2 ELSE 1

MobilityDelta(x) == IF x.mob >= 6 THEN 2 ELSE IF x.mob >= 3 THEN 0 ELSE -1

SumOfDeltas(x) ==
    LooseDelta(x) + TensionDelta(x) + StabilityDelta(x)
        + BadBishopDelta(x) + RimKnightDelta(x) + MobilityDelta(x)

\* C10: the score scoreOneMinor returns is the sum of the deltas of all six
\* rules (none skipped), and the tag is G (high) when the score is >= 2,
\* R (low) when it is <= -2, Y (neutral) otherwise.
C10_ScoreIsSumOfRules ==
    scOut # <<>> =>
        /\ scOut[1].score = SumOfDeltas(scIn)
        /\ scOut[1].colorTag = "G" <=> SumOfDeltas(scIn) >= 2
        /\ scOut[1].colorTag = "R" <=> SumOfDeltas(scIn) <= -2
        /\ scOut[1].colorTag = "Y" <=> (SumOfDeltas(scIn) > -2 /\ SumOfDeltas(scIn) < 2)
        /\ scOut[1].colorTag \in {"G", "Y", "R"}

\* C10 witness: a loose rim knight with high mobility has been classified;
\* the loose, tension, rim and mobility rules all contributed (-4 -1 -2 +2).
C10_Witness ==
    /\ scOut # <<>>
    /\ scIn.type = "n" /\ scIn.edge /\ scIn.mob >= 6
    /\ scIn.oppAtt = 2 /\ scIn.myDef = 1
    /\ scOut[1].score = -5
    /\ scOut[1].colorTag = "R"

\* The move tokens of a move text: what tokenizeMovetext returns that is not
\* a comment, a move number or a result.
MoveTokens(text) == SelectSeq(tokenizeMovetext(text), IsMoveLikeTok)

EntriesAt(inj, p, kind) ==
    IF p \in DOMAIN inj THEN SelectSeq(inj[p], LAMBDA e : e.kind = kind) ELSE <<>>

HasRationale(inj, p, id) ==
    \E i \in 1..Len(EntriesAt(inj, p, "rationale")) : EntriesAt(inj, p, "rationale")[i].id = id

\* C4: change-gated emission - when a ply P >= START_PLY has been processed,
\* a live identity has a rationale comment at P exactly when the tag
\* scoreOneMinor gives it on the board after P differs from the tag it had
\* stored before P was evaluated; an unchanged identity has none.
C4_ChangeGatedRationale ==
    [][ (ply' = ply + 1 /\ ply' >= START_PLY) =>
          \A id \in DOMAIN tracked' :
              HasRationale(injections', ply', id)
                  <=> scoreOneMinor(walk'.board,
                                    [type |-> tracked'[id].type, color |-> tracked'[id].color,
                                     square |-> tracked'[id].square]).colorTag
                          # tracked[id].lastColorTag ]_vars

\* C4 witness: a ply from START_PLY on has been processed with a rationale
\* for one live identity and none for another.
C4_Witness ==
    /\ pc = "replay"
    /\ ply >= START_PLY
    /\ \E id \in DOMAIN tracked : HasRationale(injections, ply, id)
    /\ \E id \in DOMAIN tracked : ~HasRationale(injections, ply, id)

\* C5: highlight presence - every ply from START_PLY to the last replayed
\* ply has exactly one highlight comment in its injection list; when the ply
\* is processed that comment lists the square of every identity live after
\* the move and nothing else, and the list of a ply is not touched later.
C5_OneHighlightPerPly ==
    /\ [](\A p \in START_PLY..ply : Len(EntriesAt(injections, p, "csl")) = 1)
    /\ [][ /\ \A p \in DOMAIN injections :
                p \in DOMAIN injections' /\ injections'[p] = injections[p]
           /\ (ply' = ply + 1 /\ ply' >= START_PLY) =>
                LET parts == EntriesAt(injections', ply', "csl")[1].parts
                IN  /\ Len(parts) = Cardinality(DOMAIN tracked')
                    /\ \A id \in DOMAIN tracked' :
                          \E i \in 1..Len(parts) : parts[i].square = tracked'[id].square
         ]_vars

\* C5 witness: two plies from START_PLY on have been processed, a capture
\* has left fewer than eight identities, and the last list holds more than
\* its highlight.
C5_Witness ==
    /\ pc = "replay"
    /\ ply > START_PLY
    /\ Cardinality(DOMAIN tracked) < 8
    /\ Len(injections[ply]) > 1
    /\ Len(EntriesAt(injections, ply, "csl")) = 1

\* C6: nothing is pushed for a ply before START_PLY and every stored tag is
\* still "Y" while ply < START_PLY; a move replayed before START_PLY removes
\* the identity captured on its destination and relocates the identity that
\* moved, and leaves every other identity where it was.
C6_QuietBeforeStartPly ==
    /\ [](/\ \A p \in DOMAIN injections : p >= START_PLY
          /\ ply < START_PLY =>
                \A id \in DOMAIN tracked : tracked[id].lastColorTag = "Y")
    /\ [][ (ply' = ply + 1 /\ ply' < START_PLY) =>
             LET mv == hist'[ply'] IN
             /\ DOMAIN tracked' \subseteq DOMAIN tracked
             /\ \A id \in DOMAIN tracked :
                   IF mv.captured # "-" /\ tracked[id].square = mv.to
                   THEN id \notin DOMAIN tracked'
                   ELSE /\ id \in DOMAIN tracked'
                        /\ tracked'[id].square =
                              IF /\ tracked[id].square = mv.from
                                 /\ tracked[id].type = mv.piece
                                 /\ tracked[id].color = mv.color
                              THEN mv.to ELSE tracked[id].square
         ]_vars

\* C6 witness: the ply before START_PLY has been replayed; by then an
\* identity was captured and another stands on a new square, and nothing
\* has been pushed.
C6_Witness ==
    /\ pc = "replay"
    /\ ply = START_PLY - 1
    /\ injections = <<>>
    /\ Cardinality(DOMAIN tracked) < 8
    /\ \E id \in DOMAIN tracked :
          tracked[id].square # initTrackedFromPosition(StartBoard)[id].square

C8_TrackerMatchesBoard ==
    pc \in {"replay", "stopped", "done"} =>
        \A id \in DOMAIN tracked :
            walk.board[tracked[id].square] = Piece(tracked[id].type, tracked[id].color)

\* Square a comes before square b in the order of their names.
NameLess(a, b) ==
    \/ fileIndex(a) < fileIndex(b)
    \/ fileIndex(a) = fileIndex(b) /\ rankIndex(a) < rankIndex(b)

\* C9: the labels are fixed by the starting board alone - in each (colour,
\* type) group label k (1 or 2) exists exactly when the group has k pieces
\* and is on the k-th smallest square by name; nothing else is tracked, so at
\* most two knights and two bishops per colour; every tag starts as "Y".
C9_LabelsFromBoard ==
    pc = "labelled" =>
        /\ DOMAIN tracked \subseteq { ID_ORDER[i] : i \in 1..Len(ID_ORDER) }
        /\ \A i \in 1..Len(ID_ORDER) :
              LET id == ID_ORDER[i]
                  group == { sq \in Squares :
                               walk.board[sq] = Piece(LabelSlot[id].type, LabelSlot[id].color) }
              IN  /\ id \in DOMAIN tracked <=> Cardinality(group) >= LabelSlot[id].slot
                  /\ id \in DOMAIN tracked =>
                        /\ tracked[id].square \in group
                        /\ Cardinality({ t \in group : NameLess(t, tracked[id].square) })
                               = LabelSlot[id].slot - 1
                        /\ tracked[id].type = LabelSlot[id].type
                        /\ tracked[id].color = LabelSlot[id].color
                        /\ tracked[id].lastColorTag = "Y"

\* C9 witness: a board with white knights on a2, b1 and c3 has been
\* labelled; N1 is on a2 and N2 on b1, the knight on c3 has no label.
C9_Witness ==
    /\ pc = "labelled"
    /\ walk.board[Sq("a", 2)] = Piece("n", "w")
    /\ walk.board[Sq("b", 1)] = Piece("n", "w")
    /\ walk.board[Sq("c", 3)] = Piece("n", "w")
    /\ tracked["N1"].square = Sq("a", 2)
    /\ tracked["N2"].square = Sq("b", 1)
    /\ Cardinality(DOMAIN tracked) = 2

\* The reason words of each rule.
LooseWords == {"LOOSE", "NotLoose"}

TensionWords == {"TENSION", "NoPressure"}

StabilityWords == {"STABLE", "NotStable"}

BadBishopWords == {"BADBISHOP", "BishopOK"}

RimKnightWords == {"RIMKNIGHT", "NotRim"}

MobilityWords == {"MobilityActive", "MobilityAverage", "MobilityCramped"}

Holds(reasons, words) == \E i \in 1..Len(reasons) : reasons[i] \in words

\* C11 as stated: the reason list of every classification holds a reason of
\* each of the six rules, whatever the type of the piece.
C11_EveryRuleEveryPiece ==
    scOut # <<>> =>
        /\ Holds(scOut[1].reasons, LooseWords)
        /\ Holds(scOut[1].reasons, TensionWords)
        /\ Holds(scOut[1].reasons, StabilityWords)
        /\ Holds(scOut[1].reasons, BadBishopWords)
        /\ Holds(scOut[1].reasons, RimKnightWords)
        /\ Holds(scOut[1].reasons, MobilityWords)

\* C11: the reason list of a classification has six entries, in rule order:
\* loose, tension, stability, then the bad-bishop reason for a bishop or the
\* rim-knight reason for a knight, then mobility, then the trade prediction;
\* each rule that applies to the piece records its outcome whether or not the
\* score changed, and the rule of the other piece type records nothing.
C11_AuditTrail ==
    scOut # <<>> =>
        LET r == scOut[1].reasons IN
        /\ Len(r) = 6
        /\ r[1] = (IF scIn.oppAtt >= scIn.myDef + 1 THEN "LOOSE" ELSE "NotLoose")
        /\ r[2] = (IF scIn.oppAtt > 0 THEN "TENSION" ELSE "NoPressure")
        /\ r[3] = (IF scIn.myDef >= 1 /\ scIn.oppAtt <= 1 THEN "STABLE" ELSE "NotStable")
        /\ scIn.type = "b" => r[4] = (IF scIn.pawns >= 5 THEN "BADBISHOP" ELSE "BishopOK")
        /\ scIn.type = "n" => r[4] = (IF scIn.edge THEN "RIMKNIGHT" ELSE "NotRim")
        /\ r[5] = (IF scIn.mob >= 6 THEN "MobilityActive"
                   ELSE IF scIn.mob >= 3 THEN "MobilityAverage" ELSE "MobilityCramped")
        /\ r[6] = (IF scOut[1].colorTag = "R" THEN "TradeHappy"
                   ELSE IF scOut[1].colorTag = "G" THEN "TradeAvoid" ELSE "TradeDepends")

\* C11 witness: a knight that is neither loose nor stable, with average
\* mobility, has been classified: three rules left the score alone and are
\* in the list all the same, and the list has no bad-bishop reason.
C11_Witness ==
    /\ scOut # <<>>
    /\ scIn.type = "n" /\ scIn.oppAtt = 0 /\ scIn.myDef = 0 /\ scIn.mob = 4
    /\ scOut[1].reasons[1] = "NotLoose"
    /\ scOut[1].reasons[3] = "NotStable"
    /\ scOut[1].reasons[5] = "MobilityAverage"
    /\ ~Holds(scOut[1].reasons, BadBishopWords)

\* s without carriage returns, its braces written as parentheses.
WithoutBraces(s) ==
    LET t == SelectSeq(s, LAMBDA c : c # "\r") IN
    [ i \in 1..Len(t) |-> IF t[i] = "{" THEN "(" ELSE IF t[i] = "}" THEN ")" ELSE t[i] ]

IsInfix(w, s) == \E i \in 1..(Len(s) - Len(w) + 1) : SubSeq(s, i, i + Len(w) - 1) = w

\* The lines of a header block are header lines: each "[" at a line start
\* begins one, and every line starts with "[".
IsHeaderBlock(h) ==
    /\ h # <<>>
    /\ \A i \in 1..Len(h) :
          IsLineStart(h, i) =>
              /\ h[i] = "["
              /\ i < Len(h) /\ IsKeySymbol(h[i + 1])
              /\ HeaderMatchLen(h, i, h[i + 1]) > 0

\* The shape of the fallback record: a header block, then as tokens one
\* comment quoting the first FallbackClip characters of the normalized
\* input with its braces escaped, the move number 1. with the placeholder
\* moves e4 e5, a highlight comment and a termination marker.
FallbackShape(out, normalized) ==
    LET hm == splitHeadersAndMovetext(out)
        toks == tokenizeMovetext(hm.moves)
        quoted == Trim(WithoutBraces(SliceChars(normalized, FallbackClip)))
    IN  /\ IsHeaderBlock(hm.headers)
        /\ Len(toks) = 6
        /\ isCommentTok(toks[1])
        /\ IsInfix(quoted, toks[1])
        /\ CharLen(quoted) <= FallbackClip
        /\ \A i \in 2..(Len(toks[1]) - 1) : toks[1][i] \notin {"{", "}"}
        /\ toks[2] = <<"1", ".">>
        /\ toks[3] = <<"e4">> /\ toks[4] = <<"e5">>
        /\ isCommentTok(toks[5]) /\ HasCslDirective(toks[5])
        /\ isResultTok(toks[6])
        /\ HasSuffix(TrimEnd(out), toks[6])

\* C12: when the rules engine cannot load the normalized input,
\* pieceTradesEval returns the fallback record: a header block, a diagnostic
\* comment quoting the first (at most 800) characters of the normalized
\* input with braces escaped, one placeholder move (1. e4 e5) and a
\* termination marker; no identity is tracked and nothing is classified.
C12_ParseFailureFallback ==
    ~loadPgn(gBase).ok =>
        /\ ~tryLoadPgn(gBase)
        /\ gpc # "annotated"
        /\ gpc = "fallback" =>
              /\ FallbackShape(gOut, gBase)
              /\ tracked = <<>>
              /\ ply = 0
              /\ scOut = <<>>
              /\ injections = <<>>

\* C12 witness: an input of more than 800 characters with a brace comment
\* and a word that is no move has been answered with the fallback record.
C12_Witness ==
    /\ gpc = "fallback"
    /\ ~loadPgn(gBase).ok
    /\ CharLen(gBase) > FallbackClip
    /\ \E i \in 1..Len(gBase) : gBase[i] = "{"
    /\ gOut # <<>>

\* The tokens of the move text of a returned text.
OutputTokens(text) ==
    tokenizeMovetext(splitHeadersAndMovetext(stripEndResultToken(text)).moves)

\* C13: after a replay that stopped at the move of ply P = ply + 1 (the
\* last move of hist), the text returned holds every string injected for
\* the plies before P and every token of the input, the moves from P on
\* included.
C13_DesyncKeepsEverything ==
    (pc = "done" /\ ply < Len(hist)) =>
        /\ \A p \in DOMAIN injections :
              /\ p <= ply
              /\ IsSubseq(RenderInjections(injections)[p], OutputTokens(final))
        /\ IsSubseq(InputTokens(hist, style, setup), tokenizeMovetext(
               splitHeadersAndMovetext(final).moves))

\* The move replayed by the step is a knight or bishop move and no tracked
\* identity of its colour and type is on its origin square.
TrackingMiss ==
    /\ pc = "replay" /\ ply' = ply + 1
    /\ hist'[Len(hist')].piece \in {"n", "b"}
    /\ ~\E id \in DOMAIN tracked :
          /\ tracked[id].square = hist'[Len(hist')].from
          /\ tracked[id].type = hist'[Len(hist')].piece
          /\ tracked[id].color = hist'[Len(hist')].color

\* C14: a tracking miss is skipped - the replay goes on, no identity
\* changes its square, an identity disappears only as the victim of the
\* capture on the destination square, a tag changes only to the tag the
\* classification of the ply gives from START_PLY on, and from START_PLY on
\* the ply gets its highlight entry.
C14_TrackingMissSkipped ==
    [][ TrackingMiss =>
          LET mv == hist'[Len(hist')] IN
          /\ pc' = "replay"
          /\ DOMAIN tracked' \subseteq DOMAIN tracked
          /\ \A id \in DOMAIN tracked' :
                /\ tracked'[id].square = tracked[id].square
                /\ tracked'[id].type = tracked[id].type
                /\ tracked'[id].color = tracked[id].color
                /\ tracked'[id].lastColorTag # tracked[id].lastColorTag =>
                      /\ ply' >= START_PLY
                      /\ tracked'[id].lastColorTag =
                            scoreOneMinor(walk'.board,
                                [type |-> tracked[id].type, color |-> tracked[id].color,
                                 square |-> tracked[id].square]).colorTag
          /\ \A id \in DOMAIN tracked \ DOMAIN tracked' :
                mv.captured # "-" /\ tracked[id].square = mv.to
          /\ ply' >= START_PLY =>
                /\ ply' \in DOMAIN injections'
                /\ Len(EntriesAt(injections', ply', "csl")) = 1
          /\ ply' < START_PLY => injections' = injections
    ]_vars

\* C14 witness: the promoted minor, which has no identity, has just moved at
\* a ply from START_PLY on: no identity of its colour and type is on the
\* square it went to, and the ply has its highlight entry.
C14_Witness ==
    /\ pc = "replay" /\ ply = Len(hist) /\ ply >= START_PLY
    /\ hist[ply].piece \in {"n", "b"}
    /\ ~\E id \in DOMAIN tracked :
          /\ tracked[id].square = hist[ply].to
          /\ tracked[id].type = hist[ply].piece
          /\ tracked[id].color = hist[ply].color
    /\ ply \in DOMAIN injections

\* The number of highlight directives of a text.
CslCount(text) ==
    Cardinality({ i \in 1..Len(text) :
        /\ text[i] = "[%csl"
        /\ i < Len(text) /\ IsSpace(text[i + 1])
        /\ \E j \in (i + 2)..Len(text) : text[j] = "]" })

\* The text as rebuilt from the input and the injections, before the
\* fallback directive and the termination marker are seen to.
RebuiltText(game, st, su, inj) ==
    LET hm == splitHeadersAndMovetext(stripEndResultToken(BaseText(game, st, su)))
    IN  hm.headers \o <<"\n", "\n">>
        \o rebuildMovetextWithInsertions(tokenizeMovetext(hm.moves), RenderInjections(inj))

\* C15: the text returned has at least one highlight directive; it has one
\* directive more than the rebuilt text, the minimal comment { [%csl Ye4] },
\* when the rebuilt text has none, and the directives of the rebuilt text and
\* no other when it has some.
C15_FallbackHighlight ==
    pc = "done" =>
        LET rebuilt == RebuiltText(hist, style, setup, injections) IN
        /\ CslCount(final) >= 1
        /\ CslCount(rebuilt) = 0 =>
              /\ CslCount(final) = 1
              /\ IsInfix(<<"{", " ", "[%csl", " ", "Y", "e", "4", "]", " ", "}">>, final)
        /\ CslCount(rebuilt) > 0 =>
              /\ CslCount(final) = CslCount(rebuilt)
              /\ StripSpace(stripEndResultToken(final)) = StripSpace(stripEndResultToken(rebuilt))

\* C15 witness: a game that ended before START_PLY, whose rebuilt text has
\* no highlight directive, was returned with the one fallback directive.
C15_Witness ==
    /\ pc = "done"
    /\ CslCount(RebuiltText(hist, style, setup, injections)) = 0
    /\ CslCount(final) = 1
    /\ ply < START_PLY

\* The input is a zero-move record: headers and, after the blank line, a
\* termination marker only.
ZeroMoveRecord(text) ==
    /\ hasAnyHeader(text)
    /\ IndexOfBlankLine(text) > 0
    /\ isResultTok(Trim(SubSeq(text, IndexOfBlankLine(text) + 2, Len(text))))

\* b is a with the minimal fallback comment put in somewhere, whitespace aside.
IsWithFallbackComment(b, a) ==
    \E i \in 0..Len(StripSpace(a)) :
        StripSpace(b) = SubSeq(StripSpace(a), 1, i)
                        \o <<"{", "[%csl", "Y", "e", "4", "]", "}">>
                        \o SubSeq(StripSpace(a), i + 1, Len(StripSpace(a)))

\* C16: for a zero-move record no identity is classified and the text
\* returned is the input with one minimal fallback highlight comment put in.
C16_ZeroMoveRecord ==
    (gpc \in {"fallback", "annotated"} /\ ZeroMoveRecord(gIn)) =>
        /\ scOut = <<>>
        /\ injections = <<>>
        /\ IsWithFallbackComment(gOut, gIn)

\* The header lines of a text, each from "[" to "]", in their order.
HeaderLinesOf(text) ==
    LET starts == SelectSeq([ i \in 1..Len(text) |-> i ], LAMBDA i :
                      /\ IsLineStart(text, i)
                      /\ i < Len(text) /\ text[i] = "["
                      /\ HeaderMatchLen(text, i, text[i + 1]) > 0)
    IN  [ k \in 1..Len(starts) |->
            SubSeq(text, starts[k], starts[k] + 1 + ValuePartLen(text, starts[k] + 2)) ]

\* The brace comments of the move text of a text, in their order.
CommentsOf(text) ==
    SelectSeq(tokenizeMovetext(splitHeadersAndMovetext(text).moves), isCommentTok)

\* C17: the text returned for an input the rules engine can load has every
\* header line of the input, with its value, and every comment of the
\* input, verbatim and in the original order.
C17_HeadersAndCommentsKept ==
    (gpc \in {"fallback", "annotated"} /\ loadPgn(gIn).ok) =>
        /\ \A k \in 1..Len(HeaderLinesOf(gIn)) :
              \E h \in 1..Len(HeaderLinesOf(gOut)) :
                  HeaderLinesOf(gOut)[h] = HeaderLinesOf(gIn)[k]
        /\ IsSubseq(CommentsOf(gIn), CommentsOf(gOut))

\* The key of a header line.
KeyOf(line) == line[2]

\* The header lines of a text whose key is (is not) in the override map.
IsOverridden(line, extra) == \E n \in 1..Len(extra) : extra[n].key = KeyOf(line)

\* The key is on a line of the defaults supplied to an input with these
\* header lines.
SuppliedByDefault(key, lines) ==
    \/ key = "Result"
    \/ lines = <<>> /\ key \in {"Event", "Site", "Date", "Round", "White", "Black"}

\* C18: the result of ensureHeaders has a Result header; each override key
\* is on exactly one header line, with the override value; that line is
\* where the key's line was in the input, or, when the input had none, at
\* the end of the header block (after it come appended override lines
\* only), which a blank line still ends; the other header lines of the
\* input are kept, values and order.
C18_EnsureHeaders ==
    gpc = "headers" =>
        LET inLines == HeaderLinesOf(gIn)
            outLines == HeaderLinesOf(gOut)
            block == IF IndexOfBlankLine(gOut) > 0
                     THEN SubSeq(gOut, 1, IndexOfBlankLine(gOut) - 1)
                     ELSE TrimEnd(gOut)
        IN  /\ hasHeader(gOut, "Result")
            /\ \A n \in 1..Len(gExtra) :
                  LET hits == SelectSeq(outLines, LAMBDA l : KeyOf(l) = gExtra[n].key)
                      was == SelectSeq(inLines, LAMBDA l : KeyOf(l) = gExtra[n].key)
                  IN  /\ hits = << HeaderLine(gExtra[n].key, gExtra[n].value) >>
                      /\ (was = <<>> /\ ~SuppliedByDefault(gExtra[n].key, inLines)) =>
                            \A h \in 1..Len(outLines) :
                                KeyOf(outLines[h]) = gExtra[n].key =>
                                    \A k \in h..Len(outLines) :
                                        /\ IsOverridden(outLines[k], gExtra)
                                        /\ IsInfix(outLines[k], block)
            /\ IsHeaderBlock(block)
            /\ IsSubseq(SelectSeq(inLines, LAMBDA l : ~IsOverridden(l, gExtra)),
                        SelectSeq(outLines, LAMBDA l : ~IsOverridden(l, gExtra)))
            /\ \A n \in 1..Len(gExtra) : \A k \in 1..Len(inLines) :
                  (KeyOf(inLines[k]) = gExtra[n].key /\ k < Len(inLines)
                   /\ ~IsOverridden(inLines[k + 1], gExtra)) =>
                      \E h \in 1..(Len(outLines) - 1) :
                          /\ KeyOf(outLines[h]) = gExtra[n].key
                          /\ outLines[h + 1] = inLines[k + 1]

\* C19: the text ensureTrailingResult returns ends with one of the four
\* termination markers, which is the value of the Result header when the
\* text has one and "*" when it has none.
HasResultHeader(s) == \E i \in 1..Len(s) : ResultHeaderAt(s, i)

ExpectedMarker(s) == IF HasResultHeader(s) THEN ResultHeaderValue(s) ELSE <<"*">>

C19_EndsWithHeaderMarker ==
    gpc = "result" =>
        /\ EndMarker(TrimEnd(gOut)) # <<>>
        /\ EndMarker(TrimEnd(gOut)) = ExpectedMarker(gIn)

\* A token that is the notation of a move of the game.
IsPlayedMoveTok(tok, game) == \E k \in 1..Len(game) : tok = <<game[k].san>>

\* The place in toks of the token of the n-th played move, 0 when toks has
\* fewer than n such tokens.
PlayedMoveIndex(toks, game, n) ==
    LET places == { j \in 1..Len(toks) :
                      /\ IsPlayedMoveTok(toks[j], game)
                      /\ Cardinality({ i \in 1..j : IsPlayedMoveTok(toks[i], game) }) = n }
    IN  IF places = {} THEN 0 ELSE CHOOSE j \in places : TRUE

FirstResultIndex(toks) ==
    IF \E i \in 1..Len(toks) : isResultTok(toks[i])
    THEN CHOOSE i \in 1..Len(toks) :
             isResultTok(toks[i]) /\ \A k \in 1..(i - 1) : ~isResultTok(toks[k])
    ELSE Len(toks) + 1

\* Number of strings injected for the plies 1..n.
RECURSIVE InjectedUpTo(_, _)
InjectedUpTo(inj, n) ==
    IF n = 0 THEN 0 ELSE Len(InjectAt(inj, n)) + InjectedUpTo(inj, n - 1)

\* C21: the ply counter of the reconstruction starts at 0, goes up by
\* exactly one at each token that is neither a comment, a move-number marker
\* nor a result marker, stays as it is at a comment or move-number token,
\* and is never raised at or after the first Result token; the strings put
\* out are the tokens visited and the injections of the plies counted.
C21_PlyCounting ==
    tpc = "rebuilt" =>
        LET counter == PlyCounter(tToks)
            before(i) == IF i = 1 THEN 0 ELSE counter[i - 1]
            last == IF counter = <<>> THEN 0 ELSE counter[Len(counter)]
            stop == FirstResultIndex(tToks)
        IN  /\ Len(counter) = (IF stop <= Len(tToks) THEN stop ELSE Len(tToks))
            /\ \A i \in 1..Len(counter) :
                  /\ (isCommentTok(tToks[i]) \/ isMoveNumberTok(tToks[i]))
                        => counter[i] = before(i)
                  /\ isResultTok(tToks[i]) => counter[i] = before(i)
                  /\ (~isCommentTok(tToks[i]) /\ ~isMoveNumberTok(tToks[i])
                          /\ ~isResultTok(tToks[i]))
                        => counter[i] = before(i) + 1
            /\ last = Cardinality({ i \in 1..(stop - 1) :
                          /\ i <= Len(tToks)
                          /\ ~isCommentTok(tToks[i])
                          /\ ~isMoveNumberTok(tToks[i]) })
            /\ Len(tOut) = Len(counter) + InjectedUpTo(tInj, last)
            /\ \A n \in 1..last : IsSubseq(InjectAt(tInj, n), tOut)
            /\ \A n \in DOMAIN tInj :
                  (n > last /\ \E k \in 1..Len(tInj[n]) :
                                  \A i \in 1..Len(tToks) : tToks[i] # tInj[n][k])
                      => \E k \in 1..Len(tInj[n]) :
                             \A j \in 1..Len(tOut) : tOut[j] # tInj[n][k]

\* A rebuilt text with a counted token before a Result token and a token
\* after it, and an injection for the first ply.
C21_Witness ==
    /\ tpc = "rebuilt"
    /\ InjectAt(tInj, 1) # <<>>
    /\ \E i, r, k \in 1..Len(tToks) :
          /\ i < r /\ r < k
          /\ IsMoveLikeTok(tToks[i])
          /\ isResultTok(tToks[r])

\* The plies whose injection list holds an entry of the kind.
PliesWith(inj, kind) == { p \in DOMAIN inj : EntriesAt(inj, p, kind) # <<>> }

\* Some live identity gets from scoreOneMinor, on the board pos, a tag other
\* than the tag stored in before.
SomeTagDiffers(before, after, pos) ==
    \E id \in DOMAIN after :
        scoreOneMinor(pos.board, [type |-> after[id].type, color |-> after[id].color,
                                  square |-> after[id].square]).colorTag
            # before[id].lastColorTag

\* A token of the returned text that is the assumptions comment / a
\* rationale comment.
IsAssumptionsTok(tok) == \E i \in 1..Len(tok) : tok[i] = "Assumptions"

IsRationaleTok(tok) == \E i \in 1..Len(tok) : tok[i] = "went"

\* C22: in one run the assumptions comment is pushed at most once, at the
\* first processed ply at which the newly computed tag of some identity
\* differs from its stored tag; it stands before every rationale comment,
\* in the injection map and in the text returned; a run in which no tag ever
\* changes has no assumptions comment.
C22_AssumptionsOnce ==
    /\ [][ (ply' = ply + 1 /\ ply' >= START_PLY) =>
              ( EntriesAt(injections', ply', "assumptions") # <<>>
                  <=> ( /\ PliesWith(injections, "assumptions") = {}
                        /\ PliesWith(injections, "rationale") = {}
                        /\ SomeTagDiffers(tracked, tracked', walk') ) ) ]_vars
    /\ [][ \A p \in DOMAIN injections : p \in DOMAIN injections' /\ injections'[p] = injections[p] ]_vars
    /\ []( /\ Cardinality(PliesWith(injections, "assumptions")) <= 1
           /\ emittedAssumptions <=> PliesWith(injections, "assumptions") # {}
           /\ \A p \in PliesWith(injections, "assumptions") :
                 /\ Len(EntriesAt(injections, p, "assumptions")) = 1
                 /\ EntriesAt(injections, p, "assumptions")[1].ply = p
                 /\ EntriesAt(injections, p, "assumptions")[1].san = hist[p].san
                 /\ \A q \in PliesWith(injections, "rationale") : q >= p
                 /\ \A i, k \in 1..Len(injections[p]) :
                       (injections[p][i].kind = "assumptions" /\ injections[p][k].kind = "rationale")
                           => i < k
           /\ PliesWith(injections, "rationale") # {} => PliesWith(injections, "assumptions") # {}
           /\ pc = "done" =>
                 LET out == OutputTokens(final) IN
                 /\ Cardinality({ j \in 1..Len(out) : IsAssumptionsTok(out[j]) }) <= 1
                 /\ \A j \in 1..Len(out) :
                       IsRationaleTok(out[j]) => \E i \in 1..(j - 1) : IsAssumptionsTok(out[i])
                 /\ \A j \in 1..Len(out) :
                       IsAssumptionsTok(out[j]) =>
                           \E q \in PliesWith(injections, "assumptions") :
                               out[j] = RenderEntry(EntriesAt(injections, q, "assumptions")[1]) )

\* The first processed ply changed no tag and two later plies did; the
\* assumptions comment was pushed at the first of the two only, and the text
\* returned holds it before the first rationale comment.
C22_Witness ==
    /\ pc = "done"
    /\ Cardinality(PliesWith(injections, "rationale")) >= 2
    /\ \E p \in PliesWith(injections, "assumptions") : p > START_PLY
    /\ \E j \in 1..Len(OutputTokens(final)) : IsAssumptionsTok(OutputTokens(final)[j])
    /\ \E j \in 1..Len(OutputTokens(final)) : IsRationaleTok(OutputTokens(final)[j])

\* The live identities in the label order N1, N2, B1, B2, n1, n2, b1, b2.
LiveInLabelOrder(trk) ==
    SelectSeq(<<"N1", "N2", "B1", "B2", "n1", "n2", "b1", "b2">>, LAMBDA id : id \in DOMAIN trk)

\* The highlight pushed for the ply lists, for every live identity in label
\* order, its stored tag (a letter of G, Y, R) and its square.
HighlightListsLive ==
    LET parts == injections[ply][1].parts
        live == LiveInLabelOrder(tracked)
    IN  /\ Len(injections[ply]) = 1
        /\ injections[ply][1].kind = "csl"
        /\ Len(parts) = Len(live)
        /\ \A i \in 1..Len(parts) :
              /\ parts[i].tag = tracked[live[i]].lastColorTag
              /\ parts[i].tag \in {"G", "Y", "R"}
              /\ parts[i].square = tracked[live[i]].square
              /\ parts[i].square \in Squares
        /\ RenderEntry(injections[ply][1])
              = <<"{", " ", "[%csl", " ">> \o JoinParts(parts, 1) \o <<"]", " ", "}">>

\* C23 as stated: the highlight of a processed ply lists every live identity
\* in label order with its stored tag and its square, and the directive has
\* at least one entry.
C23_HighlightContent ==
    pc = "highlighted" =>
        /\ HighlightListsLive
        /\ Len(injections[ply][1].parts) >= 1

\* C23 amended: the highlight of a processed ply lists every live identity
\* in label order with its stored tag and its square; with no live identity
\* the directive has no entry and the comment reads { [%csl ] }.
C23_HighlightPerLiveIdentity ==
    pc = "highlighted" =>
        /\ HighlightListsLive
        /\ Len(injections[ply][1].parts) = Cardinality(DOMAIN tracked)
        /\ DOMAIN tracked = {} =>
              RenderEntry(injections[ply][1]) = <<"{", " ", "[%csl", " ", "]", " ", "}">>

\* A highlight of a tracker that lost both white bishops and one black
\* knight, with three different stored tags among the rest.
C23_Witness ==
    /\ pc = "highlighted"
    /\ DOMAIN tracked = {"N1", "N2", "n2", "b1", "b2"}
    /\ { tracked[id].lastColorTag : id \in DOMAIN tracked } = {"G", "Y", "R"}
    /\ Len(injections[ply][1].parts) = 5

\* The notation texts of the first n moves of a game.
SanTexts(game, n) == [ i \in 1..n |-> game[i].san ]

\* The input of example 1 has been replayed and answered.
ExampleOneDone ==
    /\ pc = "done"
    /\ ~setup
    /\ ~style.dense /\ ~style.lineComment /\ ~style.nag
    /\ Len(hist) = 8
    /\ SanTexts(hist, 8) = SanTexts(FourKnights, 8)

\* A comment token holding a highlight directive, and the squares it names.
IsHighlightTok(tok) == isCommentTok(tok) /\ \E i \in 1..Len(tok) : tok[i] = "[%csl"

HighlightSquares(tok) ==
    { <<tok[i], tok[i + 1]>> : i \in { k \in 1..(Len(tok) - 1) :
          /\ \E f \in 1..Len(FILES) : tok[k] = FILES[f]
          /\ \E r \in 1..Len(RANKS) : tok[k + 1] = RANKS[r] } }

\* C24 as stated: for the 8-ply input 1. e4 e5 2. Nf3 Nc6 3. Bc4 Bc5 4. Nc3
\* Nf6 with start ply 10 the text returned holds, after a move token, a
\* highlight naming exactly the squares f3, c6, c4, c5, c3, f6.
C24_ExampleOne ==
    ExampleOneDone =>
        LET out == OutputTokens(final) IN
        \E j \in 2..Len(out) :
            /\ IsMoveLikeTok(out[j - 1])
            /\ IsHighlightTok(out[j])
            /\ HighlightSquares(out[j])
                  = { <<"f", "3">>, <<"c", "6">>, <<"c", "4">>, <<"c", "5">>,
                      <<"c", "3">>, <<"f", "6">> }

\* C24 amended: the 8-ply input of example 1 ends before the start ply 10,
\* so nothing is injected: the text returned holds the eight moves and one
\* highlight only, the minimal one { [%csl Ye4] }, before the first move.
\* Continued to ply 10 by 5. d3 d6, the game gets its first injection at ply
\* 10, whose highlight names the squares of all eight identities, which are
\* all live: c3, f3, c1, c4, c6, f6, c8, c5.
C24_ExampleOneEndsBeforeStartPly ==
    /\ ExampleOneDone =>
          LET out == OutputTokens(final) IN
          /\ injections = <<>>
          /\ ply = 8
          /\ DOMAIN tracked = DOMAIN LabelSlot
          /\ Cardinality({ j \in 1..Len(out) : IsHighlightTok(out[j]) }) = 1
          /\ out[1] = <<"{", " ", "[%csl", " ", "Y", "e", "4", "]", " ", "}">>
          /\ SelectSeq(out, IsMoveLikeTok) = [ i \in 1..8 |-> <<hist[i].san>> ]
    /\ (pc = "replay" /\ ~setup /\ Len(hist) = 10
           /\ SanTexts(hist, 10) = SanTexts(FourKnights, 10)) =>
          /\ DOMAIN injections = {10}
          /\ injections[10][1].kind = "csl"
          /\ { SquareName(injections[10][1].parts[i].square) :
                   i \in 1..Len(injections[10][1].parts) }
                = { <<"c", "3">>, <<"f", "3">>, <<"c", "1">>, <<"c", "4">>,
                    <<"c", "6">>, <<"f", "6">>, <<"c", "8">>, <<"c", "5">> }

\* The input of example 1 has been answered.
C24_Witness == ExampleOneDone /\ final # <<>>

\* A call run alone from the state r to its return.
RECURSIVE RunAlone(_)
RunAlone(r) ==
    IF r.ply < Len(r.game) THEN RunAlone(RunStep(<<r>>, 1)) ELSE RunReturn(r)

\* The text each game of the two-run specification gives when run alone.
SoloOutput == [ g \in RunGames |-> RunAlone(NewRun(g)).final ]

RunHas(r, kind) == \E p \in DOMAIN r.injections : EntriesAt(r.injections, p, kind) # <<>>

\* C25: however the steps of two calls interleave, each call returns the
\* text it returns when run alone, and a call that pushes a rationale has
\* pushed its own assumptions comment, whatever the other call has emitted.
C25_RunIsolation ==
    \A i \in DOMAIN runs :
        /\ runs[i].pc = "done" => runs[i].final = SoloOutput[runs[i].game]
        /\ RunHas(runs[i], "rationale") => RunHas(runs[i], "assumptions")
        /\ runs[i].emittedAssumptions <=> RunHas(runs[i], "assumptions")

\* The second call has returned a text with its assumptions comment, having
\* pushed it while the first call, still in its loop, had pushed its own.
C25_Witness ==
    /\ DOMAIN runs = {1, 2}
    /\ runs[1].pc = "replay" /\ runs[1].emittedAssumptions
    /\ runs[1].game # runs[2].game
    /\ runs[2].pc = "done"
    /\ RunHas(runs[2], "assumptions")
    /\ \E p \in DOMAIN runs[2].injections, q \in DOMAIN runs[1].injections :
          /\ EntriesAt(runs[2].injections, p, "assumptions") # <<>>
          /\ EntriesAt(runs[1].injections, q, "assumptions") # <<>>
          /\ q < p


\* ------------------------------------------------- claims on the mock eval
\* Every move the games of the model can hold.
MenuMoves ==
    UNION { { g[i] : i \in 1..Len(g) } : g \in Book } \cup DefaultMenu(1) \cup DefaultMenu(2)

\* The rules engine plays a SAN text on a position: the move of that text
\* the position allows; a text that is no move there stops the loading.
RECURSIVE LoadSans(_, _, _)
LoadSans(pos, words, i) ==
    IF i > Len(words) THEN pos
    ELSE LET c == { m \in MenuMoves : m.san = words[i][1] /\ CanPlay(pos, m) }
         IN  IF c = {} THEN pos
             ELSE LoadSans(MakeMove(pos, CHOOSE m \in c : TRUE), words, i + 1)

FenHeaderIn(headers) ==
    \E i \in 1..Len(headers) - 1 :
        IsLineStart(headers, i) /\ headers[i] = "[" /\ headers[i + 1] = "FEN"

\* The position the rules engine reaches by loading a game text: from the
\* position of its FEN header if it has one, from the standard one if not.
LoadedPosition(text) ==
    LET parts == splitHeadersAndMovetext(text)
    IN  LoadSans(IF FenHeaderIn(parts.headers) THEN SetUpPosition ELSE StartPosition,
                 MoveTokens(parts.moves), 1)

MockInput == BaseText(hist, style, setup)

\* C26: mockEval move parity - for a loaded game whose moves all replay,
\* the text mockEval returns holds the moves of the input, in the input's
\* order and number, and loading it reaches the position that loading the
\* input reaches.
C26_MoveParity ==
    (pc = "mockDone" /\ ply = Len(hist)) =>
        /\ MoveTokens(splitHeadersAndMovetext(final).moves)
              = MoveTokens(splitHeadersAndMovetext(MockInput).moves)
        /\ LoadedPosition(final) = LoadedPosition(MockInput)

\* The text s holds the symbols w in a row.
HoldsText(s, w) == \E i \in 1..Len(s) : HasPrefixAt(s, i, w)

\* The comments written after the moves of a move text.
MoveComments(text) ==
    LET toks == tokenizeMovetext(splitHeadersAndMovetext(text).moves)
    IN  { toks[i] : i \in { j \in 2..Len(toks) :
                              isCommentTok(toks[j]) /\ IsMoveLikeTok(toks[j - 1]) } }

\* C27: mockEval annotation presence - the text mockEval returns for a
\* loaded game holds a "{mockEval:" comment and at least one "[%csl ...]"
\* tag, and every comment written for a move holds a square or an arrow
\* mark.
C27_AnnotationPresent ==
    pc = "mockDone" =>
        /\ HoldsText(final, <<"{", "mockEval:">>)
        /\ HoldsText(final, <<"[%csl", " ">>)
        /\ \A c \in MoveComments(final) :
              HoldsText(c, <<"[%csl", " ">>) \/ HoldsText(c, <<"[%cal", " ">>)

\* ---------------------------------------------------- claims on the query
\* The predicate list countMatchedPreconditions walks for a query.
ListOf(queryJson) ==
    IF queryJson.kind = "object" /\ queryJson.hasPredicates THEN queryJson.predicates ELSE <<>>

\* The assert flag of a predicate: false when it says so, true otherwise.
AssertFlag(pred) == IF pred.assert = "false" THEN FALSE ELSE TRUE

KnightAttacks(s, t) ==
    LET df == Abs(fileIndex(s) - fileIndex(t))
        dr == Abs(rankIndex(s) - rankIndex(t))
    IN  (df = 1 /\ dr = 2) \/ (df = 2 /\ dr = 1)

\* The text names a square.
NamesSquare(sq) == sq.kind = "string" /\ \E s \in Squares : SquareName(s) = sq.text

SquareNamed(sq) == CHOOSE s \in Squares : SquareName(s) = sq.text

\* C30: forkable(a, b) is true exactly when a knight on some square attacks
\* both a and b, for all pairs of squares; KNIGHT_ATTACKS[s] holds exactly
\* the knight destinations from s, and the result is whether the two masks
\* intersect; a text that names no square raises an error.
C30_ForkableIsKnightFork ==
    callpc = "forked" =>
        IF NamesSquare(callArgs.squareA) /\ NamesSquare(callArgs.squareB)
        THEN LET a == SquareNamed(callArgs.squareA)
                 b == SquareNamed(callArgs.squareB)
             IN  /\ ~callResult.raised
                 /\ callResult.value
                       = (\E s \in Squares : KnightAttacks(s, a) /\ KnightAttacks(s, b))
                 /\ \A t \in Squares : bitAt(KNIGHT_ATTACKS[a + 1], t) = KnightAttacks(a, t)
                 /\ callResult.value
                       = (\E t \in Squares : /\ bitAt(KNIGHT_ATTACKS[a + 1], t)
                                             /\ bitAt(KNIGHT_ATTACKS[b + 1], t))
        ELSE callResult.raised

C30_Witness ==
    /\ callpc = "forked"
    /\ callArgs.squareA = Ref(<<"d", "4">>)
    /\ callArgs.squareB = Ref(<<"e", "1">>)
    /\ callResult.value
    /\ ~callResult.raised

\* C34: a loose piece is classified low - whenever the attackers are at
\* least the defenders plus one, the loose rule and the tension rule fire,
\* the stability rule does not, the score is at most -2 whatever the piece
\* type, pawn count, edge flag and mobility, and the tag is "R".
C34_LooseIsLow ==
    (scOut # <<>> /\ scIn.oppAtt >= scIn.myDef + 1) =>
        /\ scOut[1].reasons[1] = "LOOSE"
        /\ scOut[1].reasons[2] = "TENSION"
        /\ scOut[1].reasons[3] = "NotStable"
        /\ scOut[1].score <= -2
        /\ scOut[1].colorTag = "R"

C34_Witness ==
    /\ scOut # <<>>
    /\ scIn.oppAtt = scIn.myDef + 1
    /\ scIn.myDef >= 1
    /\ scIn.type = "b" /\ scIn.pawns < 5 /\ scIn.mob >= 6
    /\ scOut[1].score = -2
    /\ scOut[1].colorTag = "R"

\* No two live identities record the same square.
DistinctSquares(trk) ==
    \A a, b \in DOMAIN trk : a # b => trk[a].square # trk[b].square

\* C35: tracked-set shape - in every state of a run the tracked set has at
\* most 8 identities and no two of them record the same square; from one
\* state to the next no identity is added and no identity changes colour or
\* type. When a tracked minor captures a tracked minor only the victim is
\* removed and the capturer records the destination square.
C35_TrackedSetShape ==
    /\ [](/\ Cardinality(DOMAIN tracked) <= 8
          /\ DistinctSquares(tracked))
    /\ [][/\ DOMAIN tracked' \subseteq DOMAIN tracked
          /\ \A id \in DOMAIN tracked' :
                /\ tracked'[id].color = tracked[id].color
                /\ tracked'[id].type = tracked[id].type
          /\ (/\ pc = "replay" /\ ply' = ply + 1
              /\ hist'[ply'].captured \in {"n", "b"}
              /\ hist'[ply'].piece \in {"n", "b"}
              /\ \E v \in DOMAIN tracked : tracked[v].square = hist'[ply'].to)
             => (/\ Cardinality(DOMAIN tracked') = Cardinality(DOMAIN tracked) - 1
                 /\ \A m \in DOMAIN tracked :
                       tracked[m].square = hist'[ply'].from
                           => m \in DOMAIN tracked' /\ tracked'[m].square = hist'[ply'].to)]_vars

\* C36: the stored tag is the latest classification - after every processed
\* ply P >= START_PLY the tag stored for each live identity is the tag
\* scoreOneMinor gives it on the board after P, and the highlight pushed
\* for P shows that tag on the identity's square.
C36_StoredTagIsLatest ==
    (pc \in {"replay", "stopped", "done"} /\ ply >= START_PLY) =>
        LET live == LiveInLabelOrder(tracked)
            parts == EntriesAt(injections, ply, "csl")[1].parts
            latest(id) == scoreOneMinor(walk.board,
                              [type |-> tracked[id].type, color |-> tracked[id].color,
                               square |-> tracked[id].square]).colorTag
        IN  /\ Len(parts) = Len(live)
            /\ \A i \in 1..Len(live) :
                  /\ tracked[live[i]].lastColorTag = latest(live[i])
                  /\ parts[i].tag = latest(live[i])
                  /\ parts[i].square = tracked[live[i]].square

C36_Witness ==
    /\ pc = "replay"
    /\ ply > START_PLY
    /\ \E id \in DOMAIN tracked :
          /\ HasRationale(injections, ply, id)
          /\ \E i \in 1..Len(EntriesAt(injections, ply - 1, "csl")[1].parts) :
                LET before == EntriesAt(injections, ply - 1, "csl")[1].parts[i]
                IN  /\ before.square = tracked[id].square
                    /\ before.tag # tracked[id].lastColorTag

\* C37: header/move-text separator - the text ensureHeaders returns has a
\* blank line between the header block and the move text:
\* splitHeadersAndMovetext on it returns the header lines as headers and
\* move text only as moves, also for an input whose header lines are
\* followed by the moves or by nothing without a blank line.
C37_SeparatorKept ==
    gpc = "headers" =>
        LET parts == splitHeadersAndMovetext(gOut)
        IN  /\ IndexOfBlankLine(gOut) > 0
            /\ IsHeaderBlock(parts.headers)
            /\ HeaderLinesOf(parts.headers) = HeaderLinesOf(gOut)
            /\ HeaderLinesOf(parts.moves) = <<>>

\* A predicate whose op is neither "at" nor "attacks", or an "at" predicate
\* whose piece reference is not a text of 3 characters.
Unrecognised(pred) ==
    \/ pred.op \notin {"at", "attacks"}
    \/ pred.op = "at" /\ (pred.piece.kind # "string" \/ Len(pred.piece.text) # 3)

\* The query without its predicate i.
DropPred(queryJson, i) ==
    [queryJson EXCEPT !.predicates =
        SubSeq(queryJson.predicates, 1, i - 1)
            \o SubSeq(queryJson.predicates, i + 1, Len(queryJson.predicates))]

\* C38: unrecognised predicates - a predicate whose op is neither "at" nor
\* "attacks", or whose piece reference is not a text of 3 characters, has
\* the raw result false; it adds one to the count exactly when its assert
\* field is false, and nothing when assert is true or absent.
C38_UnrecognisedPredicates ==
    callpc = "counted" =>
        \A i \in 1..Len(ListOf(callArgs.queryJson)) :
            LET pred == ListOf(callArgs.queryJson)[i]
                rest == countMatchedPreconditions(callArgs.fen, DropPred(callArgs.queryJson, i),
                                                  callArgs.options).value
            IN  Unrecognised(pred) =>
                    /\ ~RawResult(callArgs.fen, pred, FALSE).ok
                    /\ callResult.value = rest + (IF pred.assert = "false" THEN 1 ELSE 0)

C38_Witness ==
    /\ callpc = "counted"
    /\ callResult.value = 1
    /\ \E i, j \in 1..Len(ListOf(callArgs.queryJson)) :
          /\ ListOf(callArgs.queryJson)[i].op = "near"
          /\ ListOf(callArgs.queryJson)[i].assert = "false"
          /\ ListOf(callArgs.queryJson)[j].op = "at"
          /\ Unrecognised(ListOf(callArgs.queryJson)[j])
          /\ ListOf(callArgs.queryJson)[j].assert = "true"

(***************************************************************************)
(* src/wasm/cql_runner.js: runCqlWasm, its job object and its one-shot      *)
(* worker.  The main thread and each worker are separate event loops: a    *)
(* worker posts messages into the port of its Worker object, the main      *)
(* thread handles them one task at a time.  worker.terminate() empties     *)
(* that port, so a terminated worker delivers no further message; an       *)
(* error event the worker raised before it was terminated is a task of its *)
(* own and is still fired at worker.onerror.                               *)
(***************************************************************************)
MaxJobs == 2

MaxPolls == 2

\* null, for the rc and the error of a job; a start or end time of 0 is null.
Null == "null"

\* The job object; stdout, stderr and events only accumulate the text of the
\* messages handled and are left out.
createJob ==
    [state |-> "queued", startedAt |-> 0, endedAt |-> 0, rc |-> Null,
     outputPgn |-> "", error |-> Null, outputMissing |-> FALSE]

spawnWorker ==
    [pc |-> "start", ready |-> FALSE, polls |-> 0, outbox |-> <<>>,
     errorEvent |-> FALSE, terminated |-> FALSE, fs |-> <<>>]

post(type, payload) == [type |-> type, payload |-> payload]

\* The files callMain may leave at the output candidate paths, one entry per
\* candidate in order: absent, a directory (analyzePath finds it, readFile
\* throws), an empty file, or a file holding a game.
OutputFiles ==
    { <<"absent", "absent", "absent">>,
      <<"file", "absent", "absent">>,
      <<"absent", "dir", "file">>,
      <<"dir", "absent", "absent">>,
      <<"absent", "absent", "empty">> }

FileText(f) == IF f = "file" THEN "1. e4 *" ELSE ""

\* The copy loop of run(): the first candidate that exists and can be read
\* gives outText; a candidate whose read throws is skipped by the catch.
RECURSIVE outTextFrom(_, _)
outTextFrom(fs, i) ==
    IF i > Len(fs) THEN [found |-> FALSE, text |-> ""]
    ELSE IF fs[i] = "absent" THEN outTextFrom(fs, i + 1)
    ELSE IF fs[i] = "dir" THEN outTextFrom(fs, i + 1)
    ELSE [found |-> TRUE, text |-> FileText(fs[i])]

OutputMessage(fs) ==
    LET out == outTextFrom(fs, 1)
    IN  IF out.found THEN post("output", [text |-> out.text, missing |-> FALSE])
        ELSE post("output", [text |-> "", missing |-> TRUE])

\* The log lines and the status run() posts between the writes and
\* callMain, as one log.
FsLogs == << post("log", [line |-> "[argv] cql"]) >>

\* Mutant: done is posted before the output.
RunExit_DoneFirst(rc, fs) == << post("done", [rc |-> rc]), OutputMessage(fs) >>

\* run() after callMain returned: the output, then done.
RunExit(rc, fs) == << OutputMessage(fs), post("done", [rc |-> rc]) >>

\* Mutant: the throw of init() is not reported.
NotReadyMessages_Silent == <<>>

\* init() throws "Runtime not ready"; self.onmessage catches and posts error.
NotReadyMessages == << post("error", [error |-> "Runtime not ready"]) >>

\* What run() posts from the end of init() to its return or throw; the code
\* between has no await, so the worker posts all of it in one task.
RunMessages(outcome, rc, fs) ==
    IF outcome = "notReady" THEN NotReadyMessages
    ELSE IF outcome = "ensureDirThrew"
    THEN << post("error", [error |-> "/work exists but is not a directory"]) >>
    ELSE IF outcome = "writeFileThrew"
    THEN << post("status", [status |-> "Writing files"]),
            post("error", [error |-> "ErrnoError"]) >>
    ELSE IF outcome = "callMainThrew"
    THEN << post("status", [status |-> "Writing files"]) >> \o FsLogs \o
         << post("error", [error |-> "RuntimeError"]) >>
    ELSE << post("status", [status |-> "Writing files"]) >> \o FsLogs \o
         RunExit(rc, fs)

\* The ways run() can go once the runtime is there: an outcome, the value
\* callMain returned and the files it left.
ThrowingRuns == { <<o, Null, <<>> >> : o \in {"ensureDirThrew", "writeFileThrew", "callMainThrew"} }

\* callMain returns a number, or nothing when the runtime keeps it to itself.
CompletedRuns == { <<"completed", rc, fs>> : rc \in {"0", "1", "undefined"}, fs \in OutputFiles }

Runs == ThrowingRuns \cup CompletedRuns

\* The runs taken when several jobs are in flight: one that throws and one
\* that completes.
SharedRuns == { <<"callMainThrew", Null, <<>> >>, <<"completed", "0", <<"file", "absent", "absent">> >> }

Alive(w) == ~w.terminated /\ w.pc # "closed"

\* await run(msg) from the point where init() has the runtime, through the
\* catch and the finally of self.onmessage: post everything, then close.
RunAndClose(w, outcome, rc, fs) ==
    [w EXCEPT !.pc = "closed", !.ready = FALSE, !.polls = 0,
              !.fs = IF outcome = "completed" THEN fs ELSE w.fs,
              !.outbox = w.outbox \o RunMessages(outcome, rc, fs)]

\* worker.terminate(): the worker and its state are gone and the port of its
\* messages is emptied; error events already raised stay queued.
terminate(w) == [spawnWorker EXCEPT !.pc = "closed", !.terminated = TRUE, !.errorEvent = w.errorEvent, !.fs = w.fs]

\* cleanup() of runCqlWasm for job i, whose worker record is w.
cleanup(i, w) ==
    /\ workers' = [workers EXCEPT ![i] = terminate(w)]
    /\ busyWorkers' = IF busyWorkers > 0 THEN busyWorkers - 1 ELSE busyWorkers

InitCql ==
    /\ jobs = <<>>
    /\ workers = <<>>
    /\ busyWorkers = 0
    /\ now = 1
    /\ TextIdle
    /\ ScoreIdle
    /\ DriverIdle
    /\ PgnIdle
    /\ RunsIdle
    /\ CallIdle

OtherIdle == UNCHANGED <<textVars, scoreVars, driverVars, pgnVars, runVars, callVars>>

\* runCqlWasm with valid arguments: the job is created, its worker spawned,
\* the busy marker taken, the job set running and the run message posted.
runCqlWasm ==
    /\ Len(jobs) < MaxJobs
    /\ jobs' = Append(jobs, [createJob EXCEPT !.state = "running",
                                              !.startedAt = now])
    /\ workers' = Append(workers, spawnWorker)
    /\ busyWorkers' = busyWorkers + 1
    /\ now' = now + 1
    /\ OtherIdle

\* job.cancel()
cancel(i) ==
    /\ i \in 1..Len(jobs)
    /\ IF jobs[i].state = "done" \/ jobs[i].state = "error"
       THEN UNCHANGED cqlVars
       ELSE /\ jobs' = [jobs EXCEPT ![i].state = "error",
                                    ![i].error = "Cancelled",
                                    ![i].endedAt = now]
            /\ workers' = [workers EXCEPT ![i] = terminate(workers[i])]
            /\ busyWorkers' = IF busyWorkers > 0 THEN busyWorkers - 1 ELSE busyWorkers
            /\ now' = now + 1
    /\ OtherIdle

typeofNumber(v) == v \in {"0", "1"}

\* worker.onmessage for the message at the head of the worker's port.
onmessage(i) ==
    /\ i \in 1..Len(jobs)
    /\ workers[i].outbox # <<>>
    /\ LET m == Head(workers[i].outbox)
           rest == [workers EXCEPT ![i].outbox = Tail(@)]
       IN  CASE m.type = "log" ->
                  /\ workers' = rest
                  /\ UNCHANGED <<jobs, busyWorkers, now>>
             [] m.type = "output" ->
                  /\ jobs' = [jobs EXCEPT
                        ![i].outputPgn = m.payload.text,
                        ![i].outputMissing = m.payload.missing]
                  /\ workers' = rest
                  /\ UNCHANGED <<busyWorkers, now>>
             [] m.type = "done" ->
                  /\ jobs' = [jobs EXCEPT
                        ![i].rc = IF typeofNumber(m.payload.rc) THEN m.payload.rc ELSE Null,
                        ![i].state = "done",
                        ![i].endedAt = now]
                  /\ now' = now + 1
                  /\ cleanup(i, workers[i])
             [] m.type \in {"error", "fatal"} ->
                  /\ jobs' = [jobs EXCEPT
                        ![i].state = "error",
                        ![i].error = m.payload.error,
                        ![i].endedAt = now]
                  /\ now' = now + 1
                  /\ cleanup(i, workers[i])
             [] m.type = "status" ->
                  /\ workers' = rest
                  /\ UNCHANGED <<jobs, busyWorkers, now>>
    /\ OtherIdle

\* worker.onerror for an error event the worker has raised.
onerror(i) ==
    /\ i \in 1..Len(jobs)
    /\ workers[i].errorEvent
    /\ jobs' = [jobs EXCEPT ![i].state = "error",
                            ![i].error = "Uncaught Error",
                            ![i].endedAt = now]
    /\ now' = now + 1
    /\ cleanup(i, [workers[i] EXCEPT !.errorEvent = FALSE])
    /\ OtherIdle

\* self.onmessage of the worker for the run message: init() runs
\* importScripts; a failure posts fatal, rethrows into the catch that posts
\* error, and the worker closes.  When the runtime initialised during the
\* import the run goes on in the same task, otherwise init() starts to poll.
WorkerRun(i, ways) ==
    /\ i \in 1..Len(jobs)
    /\ Alive(workers[i])
    /\ workers[i].pc = "start"
    /\ \E imported \in {"threw", "ready", "pending"} :
          CASE imported = "threw" ->
                 workers' = [workers EXCEPT ![i].pc = "closed",
                     ![i].outbox = @ \o << post("fatal", [error |-> "Failed to importScripts(cql.js)"]),
                                           post("error", [error |-> "NetworkError"]) >>]
            [] imported = "ready" ->
                 \E r \in ways :
                    workers' = [workers EXCEPT ![i] =
                        RunAndClose([workers[i] EXCEPT !.ready = TRUE,
                                        !.outbox = Append(@, post("status", [status |-> "Runtime initialized"]))],
                                    r[1], r[2], r[3])]
            [] imported = "pending" ->
                 workers' = [workers EXCEPT ![i].pc = "polling"]
    /\ UNCHANGED <<jobs, busyWorkers, now>>
    /\ OtherIdle

\* Module.onRuntimeInitialized, called by the runtime while init() polls.
onRuntimeInitialized(i) ==
    /\ i \in 1..Len(jobs)
    /\ Alive(workers[i])
    /\ workers[i].pc = "polling"
    /\ ~workers[i].ready
    /\ workers' = [workers EXCEPT ![i].ready = TRUE,
                      ![i].outbox = Append(@, post("status", [status |-> "Runtime initialized"]))]
    /\ UNCHANGED <<jobs, busyWorkers, now>>
    /\ OtherIdle

\* One timer of the polling loop of init() fires.  The loop goes on while the
\* runtime is not ready and fewer than the limit of polls were made (200 in
\* the code, MaxPolls here); then init() returns or throws and run() goes on.
WorkerPoll(i, ways) ==
    /\ i \in 1..Len(jobs)
    /\ Alive(workers[i])
    /\ workers[i].pc = "polling"
    /\ LET w == [workers[i] EXCEPT !.polls = @ + 1]
       IN  IF ~w.ready /\ w.polls < MaxPolls
           THEN workers' = [workers EXCEPT ![i] = w]
           ELSE IF ~w.ready
           THEN workers' = [workers EXCEPT ![i] = RunAndClose(w, "notReady", Null, <<>>)]
           ELSE \E r \in ways :
                   workers' = [workers EXCEPT ![i] = RunAndClose(w, r[1], r[2], r[3])]
    /\ UNCHANGED <<jobs, busyWorkers, now>>
    /\ OtherIdle

\* A callback of the imported runtime throws outside run(): the worker goes
\* on and an error event is queued for the Worker object (one at a time).
WorkerUncaught(i) ==
    /\ i \in 1..Len(jobs)
    /\ Alive(workers[i])
    /\ workers[i].pc = "polling"
    /\ ~workers[i].errorEvent
    /\ workers' = [workers EXCEPT ![i].errorEvent = TRUE]
    /\ UNCHANGED <<jobs, busyWorkers, now>>
    /\ OtherIdle

NextCql ==
    \/ runCqlWasm
    \/ \E i \in 1..MaxJobs : cancel(i)
    \/ \E i \in 1..MaxJobs : onmessage(i)
    \/ \E i \in 1..MaxJobs : onerror(i)
    \/ \E i \in 1..MaxJobs : WorkerRun(i, SharedRuns)
    \/ \E i \in 1..MaxJobs : onRuntimeInitialized(i)
    \/ \E i \in 1..MaxJobs : WorkerPoll(i, SharedRuns)
    \/ \E i \in 1..MaxJobs : WorkerUncaught(i)

SpecCql == InitCql /\ [][NextCql]_vars

\* A page that runs one job, with every way its run can go.
NextJob ==
    \/ Len(jobs) = 0 /\ runCqlWasm
    \/ cancel(1)
    \/ onmessage(1)
    \/ onerror(1)
    \/ WorkerRun(1, Runs)
    \/ onRuntimeInitialized(1)
    \/ WorkerPoll(1, Runs)
    \/ WorkerUncaught(1)

SpecJob == InitCql /\ [][NextJob]_vars

\* The worker's event loop runs its tasks and timers, and the main thread
\* handles every message and error event queued for it.
JobFairness ==
    /\ WF_vars(WorkerRun(1, Runs))
    /\ WF_vars(WorkerPoll(1, Runs))
    /\ WF_vars(onmessage(1))
    /\ WF_vars(onerror(1))

SpecJobLive == SpecJob /\ JobFairness

Running == { i \in 1..Len(jobs) : jobs[i].state = "running" }

\* C31: the busy count job.status() reports equals the number of jobs whose
\* state is 'running', after any interleaving of runCqlWasm calls, worker
\* messages, worker.onerror events and cancel() calls.
C31_BusyCountsRunning == busyWorkers = Cardinality(Running)

Terminal(j) == j.state = "done" \/ j.state = "error"

\* C32: a job only moves from running to done or error; once it is done or
\* error no later message, error event or cancel() changes its state, rc,
\* error or endedAt; cancel() on a running job sets it to error 'Cancelled'
\* and terminates its worker.
C32_TerminalIsFinal ==
    [][\A i \in 1..Len(jobs) :
          /\ Terminal(jobs[i]) =>
                /\ jobs'[i].state = jobs[i].state
                /\ jobs'[i].rc = jobs[i].rc
                /\ jobs'[i].error = jobs[i].error
                /\ jobs'[i].endedAt = jobs[i].endedAt
          /\ jobs[i].state = "running" => jobs'[i].state \in {"running", "done", "error"}
          /\ (jobs[i].state = "running" /\ jobs'[i].error = "Cancelled") =>
                jobs'[i].state = "error" /\ workers'[i].terminated]_vars

Exists(fs) == { k \in 1..Len(fs) : fs[k] # "absent" }

Readable(fs) == { k \in 1..Len(fs) : fs[k] \in {"file", "empty"} }

First(S) == CHOOSE k \in S : \A m \in S : k <= m

\* C33 as stated: whenever a job is done, outputMissing is true exactly when
\* none of the output candidate paths exists.
C33_MissingIffNoPathExists ==
    \A i \in 1..Len(jobs) :
        jobs[i].state = "done" => (jobs[i].outputMissing <=> Exists(workers[i].fs) = {})

\* C33: whenever a job is done its outputPgn and outputMissing already
\* reflect the output of the run: outputMissing is true exactly when no
\* candidate path exists and can be read, and otherwise outputPgn is the
\* text of the first candidate that can.
C33_OutputBeforeDone ==
    \A i \in 1..Len(jobs) :
        jobs[i].state = "done" =>
            LET fs == workers[i].fs
            IN  /\ jobs[i].outputMissing <=> Readable(fs) = {}
                /\ Readable(fs) # {} => jobs[i].outputPgn = FileText(fs[First(Readable(fs))])
                /\ Readable(fs) = {} => jobs[i].outputPgn = ""

C33_Witness ==
    /\ Len(jobs) = 1
    /\ jobs[1].state = "done"
    /\ workers[1].fs = <<"absent", "dir", "file">>
    /\ jobs[1].outputPgn = "1. e4 *"
    /\ ~jobs[1].outputMissing

IsTerminalMessage(m) == m.type \in {"done", "error", "fatal"}

\* C39: every job eventually leaves 'running'; a worker that has closed has
\* posted a terminal message (done, error or fatal), which is still in its
\* port unless the job has ended.
C39_JobCompletes ==
    /\ [](\A i \in 1..Len(jobs) :
            (workers[i].pc = "closed" /\ jobs[i].state = "running") =>
                \E k \in 1..Len(workers[i].outbox) : IsTerminalMessage(workers[i].outbox[k]))
    /\ (Len(jobs) = 1 /\ jobs[1].state = "running") ~> (Len(jobs) = 1 /\ Terminal(jobs[1]))

C39_Witness ==
    /\ Len(jobs) = 1
    /\ jobs[1].state = "error"
    /\ jobs[1].error = "Runtime not ready"

=============================================================================
